---- MODULE Spec2Model ----
(***************************************************************************)
(* A model of the CAPL compiler of 6-Parse-CAPL-To-YAML.py: the parser     *)
(* (CAPLParser), the path extractor (PathExtractor), the optimizer         *)
(* (PolicyOptimizer) and the driver (main).                                *)
(*                                                                         *)
(* Text.  A Python str is modelled as a sequence of atoms (TLA+ strings).  *)
(* A word atom is a run of \w characters (or a hyphenated keyword such as  *)
(* "report-only"); a glue atom is a piece of punctuation.  Between two     *)
(* adjacent word atoms one blank is implied; a glue atom carries no blank  *)
(* on the sides listed in the comment of Glue.  A source line is a record  *)
(* [indent, text]: the number of leading blanks and the stripped text.     *)
(* None is modelled by the empty sequence where Python's code tests it     *)
(* by truthiness.                                                          *)
(***************************************************************************)
EXTENDS Integers, Sequences, FiniteSets, TLC

VARIABLES
    files,            \* main: capl_files, each the line list of one file
    fileIdx,          \* main: number of files already handed to parse_file
    variables,        \* CAPLParser.variables (one parser object per run)
    all_statements,   \* main: all_statements
    all_paths,        \* main: all_paths
    policies,         \* main: policies
    policy_counter,   \* PolicyOptimizer.policy_counter
    written,          \* the records written to the output folder, in order
    pc,               \* main: position in the pipeline
    hashSeed,         \* the process's string-hash seed (set iteration order)
    run,              \* number of the current process run over the same input
    prevPolicies      \* the policies of the previous run over the same input

vars == <<files, fileIdx, variables, all_statements, all_paths, policies,
          policy_counter, written, pc, hashSeed, run, prevPolicies>>

-----------------------------------------------------------------------------
(* Text helpers *)

\* Atoms that \w does not match at their first character.  "|" and "," carry no
\* blank on either side, "STATE:" "GRANT:" "SESSION:" none on their right.
Tight == {"|", ","}
Glue == Tight \cup {"\"", "[", "]", "=", "#"}

\* Hyphenated word atoms and the prefix of each that \w+ matches.
WordPrefix(a) ==
    CASE a = "report-only" -> "report"
      [] a = "signin-risk" -> "signin"
      [] a = "user-risk" -> "user"
      [] a = "signin-frequency" -> "signin"
      [] a = "persistent-browser" -> "persistent"
      [] a = "block-downloads" -> "block"
      [] OTHER -> a

\* (\w+) can match at the start of atom a.
IsWord(a) == a \notin Glue /\ a # ""

\* str.startswith(prefix + ' '): the atoms of prefix, then a blank, then more text.
StartsWithSp(text, prefix) ==
    /\ Len(text) > Len(prefix)
    /\ SubSeq(text, 1, Len(prefix)) = prefix
    /\ text[Len(prefix) + 1] \notin Tight

\* str.startswith('BLOCK') / str.startswith('ALLOW'): no blank is required, so an
\* atom that merely begins with the keyword qualifies too.
BeginsWithBLOCK == {"BLOCK", "BLOCKED"}
BeginsWithALLOW == {"ALLOW", "ALLOWED"}

\* text[n:] for a prefix of n atoms followed by a blank, then .strip()
DropAtoms(text, n) == SubSeq(text, n + 1, Len(text))

\* str.lower() on the atoms of the vocabulary.
LowerAtom(a) ==
    CASE a = "A" -> "a"
      [] a = "ALLOW" -> "allow"
      [] a = "All" -> "all"
      [] a = "AllTrusted" -> "alltrusted"
      [] a = "Android" -> "android"
      [] a = "B" -> "b"
      [] a = "BLOCK" -> "block"
      [] a = "BLOCKED" -> "blocked"
      [] a = "BreakGlass" -> "breakglass"
      [] a = "Browser" -> "browser"
      [] a = "CloudAppSecurity" -> "cloudappsecurity"
      [] a = "Compliant" -> "compliant"
      [] a = "CompliantDevice" -> "compliantdevice"
      [] a = "DesktopApp" -> "desktopapp"
      [] a = "ELSE" -> "else"
      [] a = "END" -> "end"
      [] a = "ExchangeActiveSync" -> "exchangeactivesync"
      [] a = "GRANT:" -> "grant:"
      [] a = "Guest" -> "guest"
      [] a = "HR" -> "hr"
      [] a = "High" -> "high"
      [] a = "HybridJoined" -> "hybridjoined"
      [] a = "IF" -> "if"
      [] a = "Legacy" -> "legacy"
      [] a = "Low" -> "low"
      [] a = "MFA" -> "mfa"
      [] a = "Medium" -> "medium"
      [] a = "MobileApp" -> "mobileapp"
      [] a = "NOT" -> "not"
      [] a = "OR" -> "or"
      [] a = "Office365" -> "office365"
      [] a = "Other" -> "other"
      [] a = "REQUIRE" -> "require"
      [] a = "SESSION" -> "session"
      [] a = "SESSION:" -> "session:"
      [] a = "STATE" -> "state"
      [] a = "STATE:" -> "state:"
      [] a = "Sales" -> "sales"
      [] a = "Trusted" -> "trusted"
      [] a = "VAR" -> "var"
      [] a = "Windows" -> "windows"
      [] a = "b2bCollaborationGuest" -> "b2bcollaborationguest"
      [] a = "compliantDevice" -> "compliantdevice"
      [] a = "exchangeActiveSync" -> "exchangeactivesync"
      [] a = "iOS" -> "ios"
      [] a = "internalGuest" -> "internalguest"
      [] a = "macOS" -> "macos"
      [] a = "mobileAppsAndDesktopClients" -> "mobileappsanddesktopclients"
      [] OTHER -> a

Lower(text) == [i \in 1..Len(text) |-> LowerAtom(text[i])]

\* The atoms in the order of Python's string comparison (code points: ',' < digits
\* < upper case < lower case < '|').
AtomOrder ==
    <<"\"", "#", ",", "1", "8", "=", "A", "ALLOW", "All", "AllTrusted", "Android", "B",
      "BLOCK", "BLOCKED", "BreakGlass", "Browser", "CloudAppSecurity", "Compliant",
      "CompliantDevice", "DesktopApp", "ELSE", "END", "ExchangeActiveSync", "GRANT:",
      "Guest", "HR", "High", "HybridJoined", "IF", "Legacy", "Low", "MFA", "Medium",
      "MobileApp", "NOT", "OR", "Office365", "Other", "REQUIRE", "SESSION", "SESSION:",
      "STATE", "STATE:", "Sales", "Trusted", "VAR", "Windows", "[", "]", "a", "all",
      "allow", "alltrusted", "always", "android", "app", "application", "b",
      "b2bCollaborationGuest", "b2bcollaborationguest", "block", "block-downloads",
      "blocked", "breakglass", "browser", "client", "cloudappsecurity", "compliant",
      "compliantDevice", "compliantdevice", "day", "days", "desktopapp", "device",
      "disabled", "else", "enabled", "end", "exchangeActiveSync", "exchangeactivesync",
      "g1", "g2", "grant:", "group", "guest", "high", "hour", "hours", "hr",
      "hybridjoined", "iOS", "if", "in", "internalGuest", "internalguest", "ios", "is",
      "legacy", "location", "low", "macOS", "macos", "medium", "mfa",
      "mobileAppsAndDesktopClients", "mobileapp", "mobileappsanddesktopclients",
      "monitor", "never", "not", "office365", "or", "other", "persistent-browser",
      "platform", "report-only", "require", "role", "sales", "session", "session:",
      "signin-frequency", "signin-risk", "state", "state:", "trusted", "unknown",
      "user", "user-risk", "var", "windows", "with", "x", "|">>

AtomRank(a) == IF \E i \in 1..Len(AtomOrder) : AtomOrder[i] = a
               THEN CHOOSE i \in 1..Len(AtomOrder) : AtomOrder[i] = a
               ELSE Len(AtomOrder) + 1

\* s < t for Python strings.
RECURSIVE TextLess(_, _)
TextLess(s, t) ==
    IF t = <<>> THEN FALSE
    ELSE IF s = <<>> THEN TRUE
    ELSE IF AtomRank(Head(s)) # AtomRank(Head(t)) THEN AtomRank(Head(s)) < AtomRank(Head(t))
    ELSE TextLess(Tail(s), Tail(t))

\* list.sort() / sorted(): insertion into an ascending list (a stable sort).
RECURSIVE InsertSorted(_, _)
InsertSorted(sorted, x) ==
    IF sorted = <<>> THEN <<x>>
    ELSE IF TextLess(x, Head(sorted)) THEN <<x>> \o sorted
    ELSE <<Head(sorted)>> \o InsertSorted(Tail(sorted), x)

RECURSIVE SortTexts(_)
SortTexts(list) ==
    IF list = <<>> THEN <<>>
    ELSE InsertSorted(SortTexts(SubSeq(list, 1, Len(list) - 1)), list[Len(list)])

\* sep.join(list) for a list of texts and a separator text.
RECURSIVE Join(_, _)
Join(list, sep) ==
    IF list = <<>> THEN <<>>
    ELSE IF Len(list) = 1 THEN list[1]
    ELSE list[1] \o sep \o Join(Tail(list), sep)

\* The first position at or after i where sep occurs in text, 0 when none.
RECURSIVE FindFrom(_, _, _)
FindFrom(text, sep, i) ==
    IF i + Len(sep) - 1 > Len(text) THEN 0
    ELSE IF SubSeq(text, i, i + Len(sep) - 1) = sep THEN i
    ELSE FindFrom(text, sep, i + 1)

\* sep in text
Contains(text, sep) == FindFrom(text, sep, 1) # 0

\* text.split(sep)
RECURSIVE Split(_, _)
Split(text, sep) ==
    LET k == FindFrom(text, sep, 1) IN
    IF k = 0 THEN <<text>>
    ELSE <<SubSeq(text, 1, k - 1)>> \o Split(SubSeq(text, k + Len(sep), Len(text)), sep)

\* The first position k >= i of atom "OR" with text on both sides (' OR '), 0 when none.
RECURSIVE FindOr(_, _)
FindOr(text, i) ==
    IF i >= Len(text) THEN 0
    ELSE IF i >= 2 /\ text[i] = "OR" THEN i
    ELSE FindOr(text, i + 1)

\* ' OR ' in text
ContainsOr(text) == FindOr(text, 2) # 0

\* text.split(' OR ')
RECURSIVE SplitOr(_)
SplitOr(text) ==
    LET k == FindOr(text, 2) IN
    IF k = 0 THEN <<text>>
    ELSE <<SubSeq(text, 1, k - 1)>> \o SplitOr(SubSeq(text, k + 1, Len(text)))

\* The elements of a sequence.
Range(s) == {s[i] : i \in 1..Len(s)}

-----------------------------------------------------------------------------
(* Data model *)

None == <<>>

Condition(type, operator, value, guid, is_negated) ==
    [type |-> type, operator |-> operator, value |-> value, guid |-> guid,
     is_negated |-> is_negated]

Action(type, value, is_or) == [type |-> type, value |-> value, is_or |-> is_or]

PolicyBranch ==
    [conditions |-> <<>>, actions |-> <<>>, state |-> <<"enabled">>, nested_if |-> None]

IfStatement ==
    [if_branch |-> PolicyBranch, else_if_branches |-> <<>>, else_branch |-> None]

Variable(name, display_name, guid) ==
    [name |-> name, display_name |-> display_name, guid |-> guid]

PolicyPath(conditions, actions, state) ==
    [conditions |-> conditions, actions |-> actions, state |-> state]

-----------------------------------------------------------------------------
(* CAPLParser: conditions and actions *)

\* text.replace(var_name, '"display_name" [guid]'); a variable's name is an atom
\* that is part of no other atom of the text.
RECURSIVE ReplaceAtom(_, _, _)
ReplaceAtom(text, name, by) ==
    IF text = <<>> THEN <<>>
    ELSE (IF Head(text) = name THEN by ELSE <<Head(text)>>) \o ReplaceAtom(Tail(text), name, by)

\* The loop over self.variables.items() at the head of _parse_condition; the
\* table is a list of Variables in insertion order.
RECURSIVE SubstituteVariables(_, _)
SubstituteVariables(text, table) ==
    IF table = <<>> THEN text
    ELSE LET v == Head(table)
             t == IF v.name \in Range(text)
                  THEN ReplaceAtom(text, v.name, <<"\"">> \o v.display_name \o <<"\"", "[">> \o v.guid \o <<"]">>)
                  ELSE text
         IN SubstituteVariables(t, Tail(table))

\* re.match(r'(K)\s+is\s+(\w+)', text) for K one of kinds
MatchIs(text, kinds) ==
    Len(text) >= 3 /\ text[1] \in kinds /\ text[2] = "is" /\ IsWord(text[3])

\* re.match(r'(K)\s+NOT\s+is\s+(\w+)', text)
MatchNotIs(text, kinds) ==
    Len(text) >= 4 /\ text[1] \in kinds /\ text[2] = "NOT" /\ text[3] = "is" /\ IsWord(text[4])

\* '"([^"]+)"\s*\[([^\]]+)\]' at atom k of text: a quoted name of one atom and a
\* bracketed identifier of one atom.
MatchNameGuid(text, k) ==
    /\ Len(text) >= k + 5
    /\ text[k] = "\"" /\ text[k + 1] # "\"" /\ text[k + 2] = "\""
    /\ text[k + 3] = "[" /\ text[k + 4] # "]" /\ text[k + 5] = "]"

_parse_condition(text0, table) ==
    LET text == SubstituteVariables(text0, table) IN
    IF MatchIs(text, {"user", "app", "platform", "device", "location", "client"})
    THEN Condition(text[1], "is", <<WordPrefix(text[3])>>, None, FALSE)
    ELSE IF Len(text) >= 4 /\ text[1] = "user" /\ text[2] = "NOT" /\ text[3] = "in"
            /\ text[4] \in {"group", "role"} /\ MatchNameGuid(text, 5)
    THEN Condition(text[1], "in", <<text[6]>>, <<text[9]>>, TRUE)
    ELSE IF Len(text) >= 3 /\ text[1] = "user" /\ text[2] = "in"
            /\ text[3] \in {"group", "role"} /\ MatchNameGuid(text, 4)
    THEN Condition(IF text[3] = "group" THEN "user-group" ELSE "user-role",
                   "in", <<text[5]>>, <<text[8]>>, FALSE)
    ELSE IF Len(text) >= 2 /\ text[1] \in {"app", "location"} /\ text[2] = "in"
            /\ MatchNameGuid(text, 3)
    THEN Condition(text[1], "in", <<text[4]>>, <<text[7]>>, FALSE)
    ELSE IF MatchNotIs(text, {"location"})
    THEN Condition(text[1], "is", <<WordPrefix(text[4])>>, None, TRUE)
    ELSE IF MatchNotIs(text, {"client"})
    THEN Condition(text[1], "is", <<WordPrefix(text[4])>>, None, TRUE)
    ELSE IF ContainsOr(text) /\ MatchIs(SplitOr(text)[1], {"platform", "client"})
    THEN LET parts == SplitOr(text)
             hits == SelectSeq(parts, LAMBDA p : MatchIs(p, {"platform", "client"}))
         IN Condition(parts[1][1], "is-or",
                      Join([i \in 1..Len(hits) |-> <<WordPrefix(hits[i][3])>>], <<"|">>),
                      None, FALSE)
    ELSE IF MatchIs(text, {"signin-risk", "user-risk"})
    THEN Condition(text[1], "is", <<WordPrefix(text[3])>>, None, FALSE)
    ELSE IF MatchIs(text, {"device"})
    THEN Condition(text[1], "is", <<WordPrefix(text[3])>>, None, FALSE)
    ELSE Condition("unknown", "is", text, None, FALSE)

_parse_action(text) ==
    IF StartsWithSp(text, <<"REQUIRE">>)
    THEN LET action_text == DropAtoms(text, 1) IN
         IF ContainsOr(action_text)
         THEN Action("REQUIRE", Join(SplitOr(action_text), <<"|">>), TRUE)
         ELSE Action("REQUIRE", action_text, FALSE)
    ELSE IF text = <<"BLOCK">> THEN Action("BLOCK", None, FALSE)
    ELSE IF text = <<"ALLOW">> THEN Action("ALLOW", None, FALSE)
    ELSE IF StartsWithSp(text, <<"SESSION">>)
    THEN Action("SESSION", DropAtoms(text, 1), FALSE)
    ELSE Action("UNKNOWN", text, FALSE)

-----------------------------------------------------------------------------
(* CAPLParser: the recursive descent over self.lines with the cursor
   self.line_number (ln, counted from 0).  Every parsing function returns the
   value it builds together with the cursor it leaves. *)

\* _current_line_stripped / _current_line_indent
_current_line_stripped(lines, ln) == IF ln >= Len(lines) THEN <<>> ELSE lines[ln + 1].text
_current_line_indent(lines, ln) == IF ln >= Len(lines) THEN 0 ELSE lines[ln + 1].indent

\* not line or line.startswith('#')
IsBlankOrComment(line) == line = <<>> \/ Head(line) = "#"

\* line in ['ELSE IF ', 'ELSE', 'END']: a stripped line never ends in a blank, so
\* the first member (written here with an empty last atom) is never met.
BranchStoppers == {<<"ELSE", "IF", "">>, <<"ELSE">>, <<"END">>}

\* line.startswith(('REQUIRE ', 'BLOCK', 'ALLOW', 'SESSION '))
IsActionLine(line) ==
    \/ StartsWithSp(line, <<"REQUIRE">>)
    \/ Head(line) \in BeginsWithBLOCK
    \/ Head(line) \in BeginsWithALLOW
    \/ StartsWithSp(line, <<"SESSION">>)

\* _parse_variable: the table after the VAR line (a dict: a known name keeps its place)
_parse_variable(line, table) ==
    IF /\ Len(line) >= 9 /\ line[1] = "VAR" /\ IsWord(line[2]) /\ line[3] = "="
       /\ MatchNameGuid(line, 4)
    THEN LET v == Variable(line[2], <<line[5]>>, <<line[8]>>) IN
         IF \E i \in 1..Len(table) : table[i].name = v.name
         THEN [i \in 1..Len(table) |-> IF table[i].name = v.name THEN v ELSE table[i]]
         ELSE Append(table, v)
    ELSE table

RECURSIVE _parse_if_statement(_, _, _, _)
RECURSIVE IfLoop(_, _, _, _, _)
RECURSIVE _parse_branch(_, _, _, _)
RECURSIVE CondLoop(_, _, _, _, _)
RECURSIVE _parse_branch_body(_, _, _, _, _)
RECURSIVE BodyLoop(_, _, _, _, _)

\* The `while` of _parse_branch_body (lines 243-264).
BodyLoop(lines, table, ln, expected_indent, branch) ==
    LET line == _current_line_stripped(lines, ln)
        indent == _current_line_indent(lines, ln)
    IN
    IF ln >= Len(lines) THEN [branch |-> branch, ln |-> ln]
    ELSE IF IsBlankOrComment(line)
    THEN BodyLoop(lines, table, ln + 1, expected_indent, branch)
    ELSE IF indent < expected_indent - 4 THEN [branch |-> branch, ln |-> ln]
    ELSE IF line \in BranchStoppers THEN [branch |-> branch, ln |-> ln]
    ELSE IF StartsWithSp(line, <<"IF">>)
    THEN LET r == _parse_if_statement(lines, table, ln, indent) IN
         BodyLoop(lines, table, r.ln, expected_indent,
                  [branch EXCEPT !.nested_if = <<r.stmt>>])
    ELSE IF IsActionLine(line)
    THEN BodyLoop(lines, table, ln + 1, expected_indent,
                  [branch EXCEPT !.actions = Append(@, _parse_action(line))])
    ELSE BodyLoop(lines, table, ln + 1, expected_indent, branch)

\* _parse_branch_body (lines 230-266): the STATE line, then the loop.
_parse_branch_body(lines, table, ln, expected_indent, branch) ==
    LET line == _current_line_stripped(lines, ln) IN
    IF StartsWithSp(line, <<"STATE">>)
    THEN BodyLoop(lines, table, ln + 1, expected_indent,
                  [branch EXCEPT !.state = DropAtoms(line, 1)])
    ELSE BodyLoop(lines, table, ln, expected_indent, branch)

\* The `while` of _parse_branch (lines 203-223), then the body (line 226).
CondLoop(lines, table, ln, base_indent, branch) ==
    LET line == _current_line_stripped(lines, ln)
        indent == _current_line_indent(lines, ln)
    IN
    IF ln < Len(lines) /\ IsBlankOrComment(line)
    THEN CondLoop(lines, table, ln + 1, base_indent, branch)
    ELSE IF \/ ln >= Len(lines)
            \/ (indent <= base_indent /\ line \in BranchStoppers)
            \/ StartsWithSp(line, <<"STATE">>)
            \/ StartsWithSp(line, <<"IF">>)
    THEN _parse_branch_body(lines, table, ln, base_indent + 4, branch)
    ELSE CondLoop(lines, table, ln + 1, base_indent,
                  [branch EXCEPT !.conditions = Append(@, _parse_condition(line, table))])

\* _parse_branch (lines 183-228): the condition on the IF / ELSE IF line.
_parse_branch(lines, table, ln, base_indent) ==
    LET line == _current_line_stripped(lines, ln) IN
    IF StartsWithSp(line, <<"IF">>)
    THEN CondLoop(lines, table, ln + 1, base_indent,
                  [PolicyBranch EXCEPT !.conditions =
                      <<_parse_condition(DropAtoms(line, 1), table)>>])
    ELSE IF StartsWithSp(line, <<"ELSE", "IF">>)
    THEN CondLoop(lines, table, ln + 1, base_indent,
                  [PolicyBranch EXCEPT !.conditions =
                      <<_parse_condition(DropAtoms(line, 2), table)>>])
    ELSE CondLoop(lines, table, ln, base_indent, PolicyBranch)

\* The `while` of _parse_if_statement (lines 163-179).
IfLoop(lines, table, ln, base_indent, stmt) ==
    LET line == _current_line_stripped(lines, ln)
        indent == _current_line_indent(lines, ln)
    IN
    IF ln >= Len(lines) THEN [stmt |-> stmt, ln |-> ln]
    ELSE IF indent < base_indent THEN [stmt |-> stmt, ln |-> ln]
    ELSE IF StartsWithSp(line, <<"ELSE", "IF">>)
    THEN LET r == _parse_branch(lines, table, ln, base_indent) IN
         IfLoop(lines, table, r.ln, base_indent,
                [stmt EXCEPT !.else_if_branches = Append(@, r.branch)])
    ELSE IF line = <<"ELSE">>
    THEN LET r == _parse_branch_body(lines, table, ln + 1, base_indent + 4, PolicyBranch) IN
         IfLoop(lines, table, r.ln, base_indent, [stmt EXCEPT !.else_branch = <<r.branch>>])
    ELSE IF line = <<"END">> THEN [stmt |-> stmt, ln |-> ln + 1]
    ELSE [stmt |-> stmt, ln |-> ln]

\* _parse_if_statement (lines 155-181)
_parse_if_statement(lines, table, ln, base_indent) ==
    LET r == _parse_branch(lines, table, ln, base_indent) IN
    IfLoop(lines, table, r.ln, base_indent, [IfStatement EXCEPT !.if_branch = r.branch])

\* A loop over the file that ends at the first line it has no rule for.
RECURSIVE FileLoop_stops_at_stray_line(_, _, _, _)
FileLoop_stops_at_stray_line(lines, table, ln, statements) ==
    LET line == _current_line_stripped(lines, ln) IN
    IF ln >= Len(lines)
    THEN [statements |-> statements, variables |-> table, ln |-> ln]
    ELSE IF IsBlankOrComment(line)
    THEN FileLoop_stops_at_stray_line(lines, table, ln + 1, statements)
    ELSE IF StartsWithSp(line, <<"VAR">>)
    THEN FileLoop_stops_at_stray_line(lines, _parse_variable(line, table), ln + 1, statements)
    ELSE IF StartsWithSp(line, <<"IF">>)
    THEN LET r == _parse_if_statement(lines, table, ln, 0) IN
         FileLoop_stops_at_stray_line(lines, table, r.ln, Append(statements, r.stmt))
    ELSE [statements |-> statements, variables |-> table, ln |-> ln]

\* The `while` of parse_file (lines 116-128).
RECURSIVE FileLoop(_, _, _, _)
FileLoop(lines, table, ln, statements) ==
    LET line == _current_line_stripped(lines, ln) IN
    IF ln >= Len(lines)
    THEN [statements |-> statements, variables |-> table, ln |-> ln]
    ELSE IF IsBlankOrComment(line) THEN FileLoop(lines, table, ln + 1, statements)
    ELSE IF StartsWithSp(line, <<"VAR">>)
    THEN FileLoop(lines, _parse_variable(line, table), ln + 1, statements)
    ELSE IF StartsWithSp(line, <<"IF">>)
    THEN LET r == _parse_if_statement(lines, table, ln, 0) IN
         FileLoop(lines, table, r.ln, Append(statements, r.stmt))
    ELSE FileLoop(lines, table, ln + 1, statements)

\* parse_file (lines 104-130): self.lines and the cursor are reset, self.variables
\* is whatever the parser object holds.
parse_file(lines, table) == FileLoop(lines, table, 0, <<>>)

-----------------------------------------------------------------------------
(* PathExtractor *)

RECURSIVE _extract_paths_from_statement(_, _)
\* A treatment that puts the conditions of the branch in front of the parent's.
ExtractBranch_own_first(branch, parent_conditions) ==
    LET conds == branch.conditions \o parent_conditions IN
    IF branch.nested_if # None
    THEN _extract_paths_from_statement(branch.nested_if[1], conds)
    ELSE <<PolicyPath(conds, branch.actions, branch.state)>>

\* The treatment of one branch (lines 749-759, 765-773, 779-787).
ExtractBranch(branch, parent_conditions) ==
    LET conds == parent_conditions \o branch.conditions IN
    IF branch.nested_if # None
    THEN _extract_paths_from_statement(branch.nested_if[1], conds)
    ELSE <<PolicyPath(conds, branch.actions, branch.state)>>

\* A loop that hands every else-if branch the negated conditions of the ones
\* before it.
RECURSIVE ExtractElseIfs_exclusive(_, _)
ExtractElseIfs_exclusive(branches, parent_conditions) ==
    IF branches = <<>> THEN <<>>
    ELSE ExtractBranch(Head(branches), parent_conditions)
         \o ExtractElseIfs_exclusive(Tail(branches),
                parent_conditions
                \o [i \in 1..Len(Head(branches).conditions) |->
                       [Head(branches).conditions[i] EXCEPT !.is_negated = ~@]])

\* The loop over stmt.else_if_branches (lines 761-773)
RECURSIVE ExtractElseIfs(_, _)
ExtractElseIfs(branches, parent_conditions) ==
    IF branches = <<>> THEN <<>>
    ELSE ExtractBranch(Head(branches), parent_conditions)
         \o ExtractElseIfs(Tail(branches), parent_conditions)

\* A traversal that takes the else branch before the else-if branches.
_extract_paths_from_statement_else_first(stmt, parent_conditions) ==
    ExtractBranch(stmt.if_branch, parent_conditions)
    \o (IF stmt.else_branch # None
        THEN ExtractBranch(stmt.else_branch[1], parent_conditions)
        ELSE <<>>)
    \o ExtractElseIfs(stmt.else_if_branches, parent_conditions)

\* _extract_paths_from_statement (lines 732-789)
_extract_paths_from_statement(stmt, parent_conditions) ==
    ExtractBranch(stmt.if_branch, parent_conditions)
    \o ExtractElseIfs(stmt.else_if_branches, parent_conditions)
    \o (IF stmt.else_branch # None
        THEN ExtractBranch(stmt.else_branch[1], parent_conditions)
        ELSE <<>>)

RECURSIVE extract_paths(_)
extract_paths(statements) ==
    IF statements = <<>> THEN <<>>
    ELSE _extract_paths_from_statement(Head(statements), <<>>) \o extract_paths(Tail(statements))

-----------------------------------------------------------------------------
(* PolicyOptimizer: clustering *)

\* [f(x) for x in list if p(x)] for the two lists of get_action_signature
ValuesOf(actions, type) ==
    LET hits == SelectSeq(actions, LAMBDA a : a.type = type /\ a.value # <<>>)
    IN [i \in 1..Len(hits) |-> hits[i].value]

\* PolicyPath.get_action_signature (lines 66-93)
get_action_signature(path) ==
    IF \E i \in 1..Len(path.actions) : path.actions[i].type = "BLOCK"
    THEN <<"BLOCK">>
    ELSE LET grant_controls == SortTexts(ValuesOf(path.actions, "REQUIRE"))
             session_controls == SortTexts(ValuesOf(path.actions, "SESSION"))
             grant_sig == IF grant_controls # <<>> THEN Join(grant_controls, <<",">>)
                          ELSE <<"ALLOW">>
             session_sig == IF session_controls # <<>> THEN Join(session_controls, <<",">>)
                            ELSE <<>>
         IN IF session_sig # <<>>
            THEN <<"GRANT:">> \o grant_sig \o <<"|", "SESSION:">> \o session_sig
            ELSE <<"GRANT:">> \o grant_sig

\* A cluster key that leaves the state out.
full_signature_without_state(path) == get_action_signature(path)

\* f"{signature}|STATE:{path.state}" (line 392)
full_signature(path) == get_action_signature(path) \o <<"|", "STATE:">> \o path.state

\* A dict that puts a new key in front of the older ones.
AddToCluster_newest_first(clusters, key, path) ==
    IF \E i \in 1..Len(clusters) : clusters[i].key = key
    THEN [i \in 1..Len(clusters) |->
            IF clusters[i].key = key
            THEN [clusters[i] EXCEPT !.paths = Append(@, path)]
            ELSE clusters[i]]
    ELSE <<[key |-> key, paths |-> <<path>>]>> \o clusters

\* clusters[full_signature].append(path) on a dict kept in insertion order
AddToCluster(clusters, key, path) ==
    IF \E i \in 1..Len(clusters) : clusters[i].key = key
    THEN [i \in 1..Len(clusters) |->
            IF clusters[i].key = key
            THEN [clusters[i] EXCEPT !.paths = Append(@, path)]
            ELSE clusters[i]]
    ELSE Append(clusters, [key |-> key, paths |-> <<path>>])

\* _cluster_by_action (lines 385-395)
RECURSIVE ClusterLoop(_, _)
ClusterLoop(paths, clusters) ==
    IF paths = <<>> THEN clusters
    ELSE ClusterLoop(Tail(paths), AddToCluster(clusters, full_signature(Head(paths)), Head(paths)))

_cluster_by_action(paths) == ClusterLoop(paths, <<>>)

-----------------------------------------------------------------------------
(* PolicyOptimizer: merging the conditions of a cluster *)

\* A set of texts as the ascending list (sorted(set)).
RECURSIVE SortedSet(_)
SortedSet(S) ==
    IF S = {} THEN <<>>
    ELSE LET m == CHOOSE x \in S : \A y \in S : y = x \/ TextLess(x, y)
         IN <<m>> \o SortedSet(S \ {m})

Reverse(list) == [i \in 1..Len(list) |-> list[Len(list) + 1 - i]]

\* Iterating a set of str: the order follows the string hashes, which the process
\* draws at start-up (hash randomization).  An odd seed gives one order of the
\* set, an even seed the opposite one.
SetIteration(S, seed) == IF seed % 2 = 1 THEN SortedSet(S) ELSE Reverse(SortedSet(S))

\* A union that takes an is-or value for one value.
ValueSet_unexploded(conditions) == {conditions[i].value : i \in 1..Len(conditions)}

\* values.update(cond.value.split('|')) / values.add(cond.value) (lines 441-447)
ValueSet(conditions) ==
    UNION {IF conditions[i].operator = "is-or"
           THEN Range(Split(conditions[i].value, <<"|">>))
           ELSE {conditions[i].value} : i \in 1..Len(conditions)}

list_capable_types == {"platform", "location", "client", "app"}

\* A lookup that takes the last condition carrying the identifier.
FirstWithGuid_last(conditions, guid) ==
    LET hits == SelectSeq(conditions, LAMBDA c : c.guid = guid) IN
    IF hits # <<>> THEN hits[Len(hits)] ELSE conditions[1]

\* next((c for c in conditions if c.guid == guid), conditions[0]) (line 470)
FirstWithGuid(conditions, guid) ==
    LET hits == SelectSeq(conditions, LAMBDA c : c.guid = guid) IN
    IF hits # <<>> THEN hits[1] ELSE conditions[1]

\* _merge_conditions_of_type (lines 428-482)
_merge_conditions_of_type(cond_type, conditions, seed) ==
    IF conditions = <<>> THEN <<>>
    ELSE IF cond_type \in list_capable_types
    THEN LET values == ValueSet(conditions) IN
         IF Cardinality(values) > 1
         THEN <<Condition(cond_type, "is-or", Join(SortedSet(values), <<"|">>), None, FALSE)>>
         ELSE <<conditions[1]>>
    ELSE IF cond_type \in {"user-group", "user-role"}
    THEN LET unique_guids == {conditions[i].guid : i \in 1..Len(conditions)} \ {<<>>}
             order == SetIteration(unique_guids, seed)
         IN [i \in 1..Len(order) |->
                LET orig == FirstWithGuid(conditions, order[i]) IN
                Condition(cond_type, "in", orig.value, order[i], orig.is_negated)]
    ELSE <<conditions[1]>>

\* condition_groups[cond.type].append(cond) on a dict kept in insertion order
\* (lines 410-414)
RECURSIVE GroupLoop(_, _)
GroupLoop(conds, groups) ==
    IF conds = <<>> THEN groups
    ELSE LET c == Head(conds) IN
         GroupLoop(Tail(conds),
            IF \E i \in 1..Len(groups) : groups[i].type = c.type
            THEN [i \in 1..Len(groups) |->
                    IF groups[i].type = c.type
                    THEN [groups[i] EXCEPT !.conds = Append(@, c)]
                    ELSE groups[i]]
            ELSE Append(groups, [type |-> c.type, conds |-> <<c>>]))

RECURSIVE AllConditions(_)
AllConditions(paths) ==
    IF paths = <<>> THEN <<>> ELSE Head(paths).conditions \o AllConditions(Tail(paths))

condition_groups(paths) == GroupLoop(AllConditions(paths), <<>>)

\* merged_conditions (lines 417-420)
RECURSIVE MergeGroups(_, _)
MergeGroups(groups, seed) ==
    IF groups = <<>> THEN <<>>
    ELSE _merge_conditions_of_type(Head(groups).type, Head(groups).conds, seed)
         \o MergeGroups(Tail(groups), seed)

merged_conditions(paths, seed) == MergeGroups(condition_groups(paths), seed)

\* The state recovered from the cluster key (lines 403-407)
StateOfSignature(signature) ==
    IF Contains(signature, <<"|", "STATE:">>)
    THEN Split(signature, <<"|", "STATE:">>)[2]
    ELSE <<"enabled">>

-----------------------------------------------------------------------------
(* PolicyOptimizer: rendering a record.  A Python dict is a function whose
   domain is the set of its keys; {} and [] are the empty function. *)

EmptyDict == <<>>

\* d[k] = v
DictSet(d, k, v) == [x \in (DOMAIN d) \cup {k} |-> IF x = k THEN v ELSE d[x]]

\* d.get(k, [])
DictGet(d, k) == IF k \in DOMAIN d THEN d[k] ELSE <<>>

\* An append that creates the missing list and appends only to a list found.
SectionAppend_else_append(d, section, k, v) ==
    [d EXCEPT ![section] =
        IF k \in DOMAIN @ THEN DictSet(@, k, Append(@[k], v)) ELSE DictSet(@, k, <<>>)]

\* if k not in d[section]: d[section][k] = []; d[section][k].append(v)
SectionAppend(d, section, k, v) ==
    [d EXCEPT ![section] = DictSet(@, k, Append(DictGet(@, k), v))]

\* d[section][k] = v
SectionSet(d, section, k, v) == [d EXCEPT ![section] = DictSet(@, k, v)]

\* _map_client_types (lines 602-611): list(set(...)) is in set iteration order
ClientMapping(c) ==
    CASE c = <<"Browser">> -> <<"browser">>
      [] c = <<"MobileApp">> -> <<"mobileAppsAndDesktopClients">>
      [] c = <<"DesktopApp">> -> <<"mobileAppsAndDesktopClients">>
      [] c = <<"ExchangeActiveSync">> -> <<"exchangeActiveSync">>
      [] c = <<"Other">> -> <<"other">>
      [] OTHER -> Lower(c)

_map_client_types(client_values, seed) ==
    SetIteration({ClientMapping(client_values[i]) : i \in 1..Len(client_values)}, seed)

\* _map_grant_control (lines 657-667)
_map_grant_control(control) ==
    CASE control = <<"MFA">> -> <<"mfa">>
      [] control = <<"CompliantDevice">> -> <<"compliantDevice">>
      [] control = <<"HybridJoined">> -> <<"domainJoinedDevice">>
      [] control = <<"ApprovedApp">> -> <<"approvedApplication">>
      [] control = <<"AppProtection">> -> <<"compliantApplication">>
      [] control = <<"PasswordChange">> -> <<"passwordChange">>
      [] OTHER -> Lower(control)

\* One turn of the loop of _build_conditions_dict (lines 518-593)
ApplyCondition(d, cond, seed) ==
    IF cond.type = "user"
    THEN IF cond.value = <<"All">> THEN SectionSet(d, "Users", "IncludeUsers", <<<<"All">>>>)
         ELSE IF cond.value = <<"Guest">>
         THEN SectionSet(d, "Users", "IncludeGuestOrExternalUserTypes",
                         <<<<"internalGuest">>, <<"b2bCollaborationGuest">>>>)
         ELSE d
    ELSE IF cond.type = "user-group"
    THEN IF cond.is_negated THEN SectionAppend(d, "Users", "ExcludeGroups", cond.guid)
         ELSE SectionAppend(d, "Users", "IncludeGroups", cond.guid)
    ELSE IF cond.type = "user-role"
    THEN SectionAppend(d, "Users", "IncludeRoles", cond.guid)
    ELSE IF cond.type = "app"
    THEN IF cond.value = <<"All">>
         THEN SectionSet(d, "Applications", "IncludeApplications", <<<<"All">>>>)
         ELSE IF cond.value = <<"Office365">>
         THEN SectionSet(d, "Applications", "IncludeApplications", <<<<"Office365">>>>)
         ELSE IF cond.guid # <<>>
         THEN SectionAppend(d, "Applications", "IncludeApplications", cond.guid)
         ELSE d
    ELSE IF cond.type = "platform"
    THEN IF cond.operator = "is-or"
         THEN SectionSet(d, "Platforms", "IncludePlatforms", Split(cond.value, <<"|">>))
         ELSE SectionAppend(d, "Platforms", "IncludePlatforms", cond.value)
    ELSE IF cond.type = "device"
    THEN IF cond.value = <<"Compliant">>
         THEN SectionSet(d, "DeviceStates", "CompliantDevice", TRUE)
         ELSE IF cond.value = <<"HybridJoined">>
         THEN SectionSet(d, "DeviceStates", "DomainJoinedDevice", TRUE)
         ELSE d
    ELSE IF cond.type = "location"
    THEN IF cond.value = <<"Trusted">>
         THEN IF cond.is_negated
              THEN SectionSet(d, "Locations", "ExcludeLocations", <<<<"AllTrusted">>>>)
              ELSE SectionSet(d, "Locations", "IncludeLocations", <<<<"AllTrusted">>>>)
         ELSE IF cond.value = <<"All">>
         THEN SectionSet(d, "Locations", "IncludeLocations", <<<<"All">>>>)
         ELSE IF cond.guid # <<>>
         THEN SectionAppend(d, "Locations", "IncludeLocations", cond.guid)
         ELSE d
    ELSE IF cond.type = "client"
    THEN IF cond.operator = "is-or"
         THEN [d EXCEPT !["ClientAppTypes"] = _map_client_types(Split(cond.value, <<"|">>), seed)]
         ELSE [d EXCEPT !["ClientAppTypes"] = _map_client_types(<<cond.value>>, seed)]
    ELSE IF cond.type = "signin-risk"
    THEN [d EXCEPT !["SignInRiskLevels"] = Append(@, Lower(cond.value))]
    ELSE IF cond.type = "user-risk"
    THEN [d EXCEPT !["UserRiskLevels"] = Append(@, Lower(cond.value))]
    ELSE d

RECURSIVE ApplyConditions(_, _, _)
ApplyConditions(d, conditions, seed) ==
    IF conditions = <<>> THEN d
    ELSE ApplyConditions(ApplyCondition(d, Head(conditions), seed), Tail(conditions), seed)

SectionKeys == {"Users", "Applications", "Platforms", "Locations", "ClientAppTypes",
                "DeviceStates", "SignInRiskLevels", "UserRiskLevels"}

\* A builder that returns the eight sections as the loop leaves them.
_build_conditions_dict_keeps_empty(conditions, seed) ==
    ApplyConditions([k \in SectionKeys |-> EmptyDict], conditions, seed)

\* _build_conditions_dict (lines 505-600): the eight empty sections, the loop, and
\* the removal of the sections left empty.
_build_conditions_dict(conditions, seed) ==
    LET cond_dict == ApplyConditions([k \in SectionKeys |-> EmptyDict], conditions, seed)
        kept == {k \in SectionKeys : cond_dict[k] # EmptyDict}
    IN [k \in kept |-> cond_dict[k]]

\* The controls of one REQUIRE action (lines 632-637)
ControlsOf(action) ==
    IF action.is_or
    THEN LET controls == Split(action.value, <<"|">>)
         IN [i \in 1..Len(controls) |-> _map_grant_control(controls[i])]
    ELSE <<_map_grant_control(action.value)>>

RECURSIVE AllControls(_)
AllControls(grant_actions) ==
    IF grant_actions = <<>> THEN <<>>
    ELSE (IF Head(grant_actions).value = None THEN <<>> ELSE ControlsOf(Head(grant_actions)))
         \o AllControls(Tail(grant_actions))

\* A removal of duplicates that keeps the last occurrence of each element.
RECURSIVE Unique_keep_last(_, _)
Unique_keep_last(list, seen) ==
    IF list = <<>> THEN <<>>
    ELSE IF Head(list) \in Range(Tail(list)) THEN Unique_keep_last(Tail(list), seen)
    ELSE <<Head(list)>> \o Unique_keep_last(Tail(list), seen)

\* Remove duplicates while preserving order (lines 643-648)
RECURSIVE Unique(_, _)
Unique(list, seen) ==
    IF list = <<>> THEN <<>>
    ELSE IF Head(list) \in seen THEN Unique(Tail(list), seen)
    ELSE <<Head(list)>> \o Unique(Tail(list), seen \cup {Head(list)})

\* A builder that looks at the REQUIRE actions before the BLOCK actions.
_build_grant_controls_grants_first(actions) ==
    LET grant_actions == SelectSeq(actions, LAMBDA a : a.type = "REQUIRE")
        block_actions == SelectSeq(actions, LAMBDA a : a.type = "BLOCK")
        built_in_controls == AllControls(grant_actions)
    IN
    IF built_in_controls # <<>>
    THEN [Operator |-> IF \E i \in 1..Len(grant_actions) : grant_actions[i].is_or
                       THEN "OR" ELSE "AND",
          BuiltInControls |-> Unique(built_in_controls, {})]
    ELSE IF block_actions # <<>>
    THEN [Operator |-> "OR", BuiltInControls |-> <<<<"block">>>>]
    ELSE EmptyDict

\* _build_grant_controls (lines 613-655)
_build_grant_controls(actions) ==
    LET grant_actions == SelectSeq(actions, LAMBDA a : a.type = "REQUIRE")
        block_actions == SelectSeq(actions, LAMBDA a : a.type = "BLOCK")
        allow_actions == SelectSeq(actions, LAMBDA a : a.type = "ALLOW")
        built_in_controls == AllControls(grant_actions)
    IN
    IF block_actions # <<>>
    THEN [Operator |-> "OR", BuiltInControls |-> <<<<"block">>>>]
    ELSE IF grant_actions = <<>> /\ allow_actions = <<>> THEN EmptyDict
    ELSE IF built_in_controls = <<>> THEN EmptyDict
    ELSE [Operator |-> IF \E i \in 1..Len(grant_actions) : grant_actions[i].is_or
                       THEN "OR" ELSE "AND",
          BuiltInControls |-> Unique(built_in_controls, {})]

\* int(m.group(1)) for the digit atoms of the vocabulary
IntOf(a) == CASE a = "1" -> 1 [] a = "8" -> 8 [] OTHER -> 0
IsDigits(a) == a \in {"1", "8"}

\* One turn of the loop of _build_session_controls (lines 678-714)
ApplySession(d, action) ==
    LET value == action.value IN
    IF value = <<>> THEN d
    ELSE IF Len(value) >= 3 /\ value[1] = "signin-frequency" /\ IsDigits(value[2])
            /\ value[3] \in {"hour", "hours", "day", "days"}
    THEN DictSet(d, "SignInFrequency",
                 [Value |-> IntOf(value[2]),
                  Type |-> IF value[3] \in {"hour", "hours"} THEN "hours" ELSE "days",
                  IsEnabled |-> TRUE])
    ELSE IF Len(value) >= 2 /\ value[1] = "persistent-browser" /\ value[2] \in {"always", "never"}
    THEN DictSet(d, "PersistentBrowser", [Mode |-> value[2], IsEnabled |-> TRUE])
    ELSE IF "monitor" \in Range(value) /\ "CloudAppSecurity" \in Range(value)
    THEN DictSet(d, "CloudAppSecurity",
                 [CloudAppSecurityType |-> "monitorOnly", IsEnabled |-> TRUE])
    ELSE IF "block-downloads" \in Range(value)
    THEN DictSet(d, "ApplicationEnforcedRestrictions", [IsEnabled |-> TRUE])
    ELSE d

RECURSIVE ApplySessions(_, _)
ApplySessions(d, session_actions) ==
    IF session_actions = <<>> THEN d
    ELSE ApplySessions(ApplySession(d, Head(session_actions)), Tail(session_actions))

\* _build_session_controls (lines 669-716)
_build_session_controls(actions) ==
    ApplySessions(EmptyDict, SelectSeq(actions, LAMBDA a : a.type = "SESSION"))

\* f"Generated-Policy-{self.policy_counter}"
PolicyName(n) == <<"Generated-Policy-", n>>

\* A record builder that leaves the empty sections in the record.
_create_policy_keeps_empty(conditions, actions, state, counter, seed) ==
    [k \in {"DisplayName", "State", "Conditions", "GrantControls", "SessionControls"} |->
          CASE k = "DisplayName" -> PolicyName(counter)
            [] k = "State" -> state
            [] k = "Conditions" -> _build_conditions_dict(conditions, seed)
            [] k = "GrantControls" -> _build_grant_controls(actions)
            [] k = "SessionControls" -> _build_session_controls(actions)]

\* _create_policy (lines 484-503); the counter's increment is the caller's
\* `counter + 1` in OptimizeLoop.
_create_policy(conditions, actions, state, counter, seed) ==
    LET grant == _build_grant_controls(actions)
        session == _build_session_controls(actions)
        keys == {"DisplayName", "State", "Conditions"}
                \cup (IF session # EmptyDict THEN {"SessionControls"} ELSE {})
                \cup (IF grant # EmptyDict THEN {"GrantControls"} ELSE {})
    IN [k \in keys |->
          CASE k = "DisplayName" -> PolicyName(counter)
            [] k = "State" -> state
            [] k = "Conditions" -> _build_conditions_dict(conditions, seed)
            [] k = "GrantControls" -> grant
            [] k = "SessionControls" -> session]

\* _merge_cluster (lines 397-426)
_merge_cluster(signature, paths, counter, seed) ==
    _create_policy(merged_conditions(paths, seed),
                   IF paths # <<>> THEN paths[1].actions ELSE <<>>,
                   StateOfSignature(signature), counter, seed)

\* The loop of optimize (lines 378-381): one record per cluster, in the order of
\* the dict; self.policy_counter goes up by one per record.
RECURSIVE OptimizeLoop(_, _, _)
OptimizeLoop(clusters, counter, seed) ==
    IF clusters = <<>> THEN <<>>
    ELSE <<_merge_cluster(Head(clusters).key, Head(clusters).paths, counter, seed)>>
         \o OptimizeLoop(Tail(clusters), counter + 1, seed)

\* optimize (lines 362-383)
optimize(paths, counter, seed) == OptimizeLoop(_cluster_by_action(paths), counter, seed)

-----------------------------------------------------------------------------
(* Bounded inputs *)

MaxRuns == 2      \* process runs over the same input
NSeeds == 2       \* hash seeds a process can draw
MaxPaths == 3     \* FlatPaths handed to one optimizer pass
MaxDepth == 3     \* nesting depth of the Decisions handed to one extractor pass

L(indent, text) == [indent |-> indent, text |-> text]

Group1 == <<"user", "in", "group", "\"", "Sales", "\"", "[", "g1", "]">>
Group2 == <<"user", "in", "group", "\"", "HR", "\"", "[", "g2", "]">>

CondTexts ==
    {<<"platform", "is", "Windows">>,
     <<"platform", "is", "macOS">>,
     <<"platform", "is", "iOS", "OR", "platform", "is", "macOS">>,
     <<"device", "is", "Compliant">>,
     Group1,
     <<"user", "in", "group", "BreakGlass">>}

StateTexts == {<<"enabled">>, <<"report-only">>}

ActionTexts ==
    {<<"BLOCK">>,
     <<"REQUIRE", "MFA">>,
     <<"REQUIRE", "A", "OR", "B">>,
     <<"REQUIRE", "B", "OR", "A">>,
     <<"ALLOW">>,
     <<"SESSION", "x", "|", "STATE:", "report-only">>}

BlankLines == {L(0, <<>>), L(4, <<"#", "x">>)}

VarLine == L(0, <<"VAR", "BreakGlass", "=", "\"", "HR", "\"", "[", "g2", "]">>)

\* IF c / STATE s / a / END
OneBranch(c, s, a) ==
    <<L(0, <<"IF">> \o c), L(4, <<"STATE">> \o s), L(8, a), L(0, <<"END">>)>>

\* IF c / c2 / STATE s / a / a2 / END
TwoConds(c, c2, s, a, a2) ==
    <<L(0, <<"IF">> \o c), L(4, c2), L(4, <<"STATE">> \o s), L(8, a), L(8, a2),
      L(0, <<"END">>)>>

\* IF c / STATE s / a / ELSE IF c2 / STATE s2 / a2 / END
WithElseIf(c, s, a, c2, s2, a2) ==
    <<L(0, <<"IF">> \o c), L(4, <<"STATE">> \o s), L(8, a),
      L(0, <<"ELSE", "IF">> \o c2), L(4, <<"STATE">> \o s2), L(8, a2), L(0, <<"END">>)>>

\* IF c / STATE s / a / ELSE / STATE s2 / a2 / END
WithElse(c, s, a, s2, a2) ==
    <<L(0, <<"IF">> \o c), L(4, <<"STATE">> \o s), L(8, a),
      L(0, <<"ELSE">>), L(4, <<"STATE">> \o s2), L(8, a2), L(0, <<"END">>)>>

\* IF c / IF c2 / STATE s / a / END / END
Nested(c, c2, s, a) ==
    <<L(0, <<"IF">> \o c), L(4, <<"IF">> \o c2), L(8, <<"STATE">> \o s), L(12, a),
      L(4, <<"END">>), L(0, <<"END">>)>>

\* IF c / IF c2 / STATE s / a / END: one END, at the indentation of the outer IF
NestedOneEnd(c, c2, s, a) ==
    <<L(0, <<"IF">> \o c), L(4, <<"IF">> \o c2), L(8, <<"STATE">> \o s), L(12, a),
      L(0, <<"END">>)>>

\* IF c / STATE s / a / ELSE / a2 / END: no STATE line in the ELSE branch
ElseNoState(c, s, a, a2) ==
    <<L(0, <<"IF">> \o c), L(4, <<"STATE">> \o s), L(8, a),
      L(0, <<"ELSE">>), L(8, a2), L(0, <<"END">>)>>

\* lines with line b put in front of line k + 1
InsertAt(lines, k, b) == SubSeq(lines, 1, k) \o <<b>> \o SubSeq(lines, k + 1, Len(lines))

PlainFiles ==
    {OneBranch(c, s, a) : c \in CondTexts, s \in StateTexts, a \in ActionTexts}
    \cup {TwoConds(c, Group1, <<"enabled">>, a, a2) :
            c \in {Group1, Group2, <<"user", "in", "group", "BreakGlass">>,
                   <<"platform", "is", "Windows">>},
            a \in ActionTexts, a2 \in ActionTexts}
    \cup {WithElseIf(<<"platform", "is", "Windows">>, <<"enabled">>, a,
                     <<"platform", "is", "macOS">>, s2, a2) :
            s2 \in StateTexts, a \in ActionTexts, a2 \in ActionTexts}
    \cup {WithElse(c, <<"enabled">>, a, s2, a2) :
            c \in {<<"platform", "is", "Windows">>, <<"device", "is", "Compliant">>},
            s2 \in StateTexts, a \in ActionTexts, a2 \in ActionTexts}
    \cup {Nested(<<"device", "is", "Compliant">>, c2, s, a) :
            c2 \in {<<"platform", "is", "Windows">>, Group1}, s \in StateTexts,
            a \in {<<"BLOCK">>, <<"REQUIRE", "MFA">>}}
    \cup {NestedOneEnd(<<"device", "is", "Compliant">>, <<"platform", "is", "Windows">>, s,
                       <<"BLOCK">>) : s \in StateTexts}
    \cup {ElseNoState(<<"platform", "is", "Windows">>, <<"enabled">>, <<"BLOCK">>, a2) :
            a2 \in ActionTexts}

\* A STATE line with a word that names no enforcement state.
OtherStateFiles ==
    {OneBranch(<<"platform", "is", "Windows">>, <<"monitor">>, a) :
        a \in {<<"BLOCK">>, <<"REQUIRE", "MFA">>}}

\* A second condition line that matches no pattern, with and without a declared
\* variable in it.
BadConditionFiles ==
    {v \o TwoConds(<<"platform", "is", "Windows">>, c2, <<"enabled">>, <<"BLOCK">>,
                   <<"REQUIRE", "MFA">>) :
        v \in {<<>>, <<VarLine>>},
        c2 \in {<<"with", "BreakGlass">>, <<"with", "x">>, <<"device", "is", "Compliant">>}}

\* One branch whose only action requires one control of the vocabulary.
SingleGrantFiles ==
    {OneBranch(c, s, <<"REQUIRE", g>>) :
        c \in {<<"platform", "is", "Windows">>, Group1}, s \in StateTexts,
        g \in {"CompliantDevice", "HybridJoined"}}

\* One branch on a group the user is not in.
NotInGroup == <<"user", "NOT", "in", "group", "\"", "HR", "\"", "[", "g2", "]">>

NegatedGroupFiles ==
    {OneBranch(NotInGroup, <<"enabled">>, a) : a \in {<<"BLOCK">>, <<"REQUIRE", "MFA">>}}

\* The same files with one blank or comment line put at any place.
SpacedFiles ==
    UNION {{InsertAt(f, k, b) : k \in 0..Len(f), b \in BlankLines} :
        f \in {WithElse(<<"platform", "is", "Windows">>, <<"enabled">>, <<"BLOCK">>,
                        <<"report-only">>, <<"REQUIRE", "MFA">>),
               Nested(<<"device", "is", "Compliant">>, <<"platform", "is", "Windows">>,
                      <<"report-only">>, <<"BLOCK">>)}}

\* A file that declares BreakGlass ahead of its decision, and files without a decision.
VarFiles ==
    {<<VarLine>> \o OneBranch(c, <<"enabled">>, <<"BLOCK">>) :
        c \in {<<"user", "in", "group", "BreakGlass">>, <<"platform", "is", "Windows">>}}
NoDecisionFiles == {<<VarLine>>, <<L(0, <<>>)>>}

FilePool ==
    PlainFiles \cup SpacedFiles \cup VarFiles \cup NoDecisionFiles \cup OtherStateFiles
    \cup BadConditionFiles \cup SingleGrantFiles \cup NegatedGroupFiles

\* Files with two paths, to go in front of a second file.
TwoPathFiles ==
    {WithElse(<<"platform", "is", "Windows">>, <<"enabled">>, a, <<"enabled">>, a2) :
        a \in {<<"BLOCK">>, <<"REQUIRE", "MFA">>}, a2 \in {<<"BLOCK">>, <<"REQUIRE", "MFA">>}}

\* A file of the input folder that open() fails on; it has no content to speak
\* of, and stands in the file list as this one line no source can hold.
Unreadable == <<L(0, <<"\\unreadable">>)>>

\* The folders of the runs with I/O failures: one or two files, each readable
\* or not.
IOFileLists ==
    LET F == TwoPathFiles \cup {Unreadable}
                 \cup {OneBranch(c, <<"enabled">>, <<"REQUIRE", "MFA">>) : c \in CondTexts}
    IN {<<f>> : f \in F} \cup {<<f, g>> : f \in F, g \in F}

\* Files of any lines: every keyword at every indentation, in any order.
MaxLines == 3     \* lines of a file of any lines

LineIndents == {0, 4}

LineTexts ==
    {<<"IF", "platform", "is", "Windows">>,
     <<"ELSE", "IF", "platform", "is", "macOS">>,
     <<"ELSE">>,
     <<"END">>,
     <<"STATE", "enabled">>,
     <<"BLOCK">>,
     <<"device", "is", "Compliant">>}

AnyLines == {L(0, <<>>)} \cup {L(i, t) : i \in LineIndents, t \in LineTexts}

AnyFiles == UNION {[1..n -> AnyLines] : n \in 1..MaxLines}

\* The runs: one file, or two files of which the first may declare a variable.
FileLists ==
    {<<f>> : f \in FilePool}
    \cup {<<f, g>> : f \in VarFiles \cup NoDecisionFiles \cup TwoPathFiles,
                     g \in {OneBranch(c, <<"enabled">>, <<"REQUIRE", "MFA">>) : c \in CondTexts}}

\* The FlatPaths handed to the optimizer on its own.
PathConditions ==
    {<<_parse_condition(<<"platform", "is", "Windows">>, <<>>)>>,
     <<_parse_condition(<<"platform", "is", "macOS">>, <<>>),
       _parse_condition(<<"device", "is", "Compliant">>, <<>>)>>,
     <<_parse_condition(Group1, <<>>)>>}

PathActions ==
    {<<_parse_action(<<"BLOCK">>)>>,
     <<_parse_action(<<"REQUIRE", "MFA">>)>>,
     <<_parse_action(<<"REQUIRE", "MFA">>), _parse_action(<<"BLOCK">>)>>}

PathPool ==
    {PolicyPath(c, a, <<"enabled">>) : c \in PathConditions, a \in PathActions}
    \cup {PolicyPath(<<_parse_condition(Group1, <<>>)>>, a, <<"report-only">>) :
            a \in PathActions}

\* FlatPaths of one outcome whose list-capable conditions differ, and one of
\* another outcome.
MergePaths ==
    {PolicyPath(c, <<_parse_action(<<"REQUIRE", "MFA">>)>>, <<"enabled">>) :
        c \in {<<_parse_condition(<<"platform", "is", "Windows">>, <<>>)>>,
               <<_parse_condition(<<"platform", "is", "macOS">>, <<>>)>>,
               <<Condition("platform", "is-or", <<"iOS", "|", "Windows">>, None, FALSE)>>,
               <<_parse_condition(<<"client", "NOT", "is", "Browser">>, <<>>),
                 _parse_condition(<<"platform", "is", "Windows">>, <<>>)>>,
               <<_parse_condition(<<"client", "is", "MobileApp">>, <<>>)>>}}
    \cup {PolicyPath(<<_parse_condition(<<"platform", "is", "Windows">>, <<>>)>>,
                     <<_parse_action(<<"BLOCK">>)>>, <<"enabled">>)}

\* FlatPaths of one outcome that name groups and roles, and one of another outcome.
GroupPaths ==
    {PolicyPath(c, <<_parse_action(<<"REQUIRE", "MFA">>)>>, <<"enabled">>) :
        c \in {<<_parse_condition(Group1, <<>>)>>,
               <<Condition("user-group", "in", <<"HR">>, <<"g1">>, TRUE)>>,
               <<_parse_condition(Group2, <<>>), _parse_condition(Group1, <<>>)>>,
               <<_parse_condition(<<"user", "in", "role", "\"", "Sales", "\"", "[", "g1", "]">>,
                                  <<>>)>>,
               <<Condition("user-group", "in", <<"Sales">>, None, FALSE)>>}}
    \cup {PolicyPath(<<_parse_condition(Group2, <<>>)>>,
                     <<_parse_action(<<"BLOCK">>)>>, <<"enabled">>)}

\* FlatPaths with SESSION actions next to a BLOCK, a REQUIRE or nothing else.
SessionPaths ==
    {PolicyPath(<<_parse_condition(<<"platform", "is", "Windows">>, <<>>)>>, a, <<"enabled">>) :
        a \in {<<_parse_action(<<"BLOCK">>)>>,
               <<_parse_action(<<"BLOCK">>),
                 _parse_action(<<"SESSION", "signin-frequency", "1", "hours">>)>>,
               <<_parse_action(<<"BLOCK">>),
                 _parse_action(<<"SESSION", "persistent-browser", "never">>)>>,
               <<_parse_action(<<"REQUIRE", "MFA">>),
                 _parse_action(<<"SESSION", "signin-frequency", "1", "hours">>)>>,
               <<_parse_action(<<"SESSION", "persistent-browser", "never">>)>>,
               <<_parse_action(<<"ALLOW">>)>>}}

\* FlatPaths of one outcome that name locations and applications, and one of
\* another outcome.
LocationPaths ==
    {PolicyPath(<<_parse_condition(c, <<>>)>>, <<_parse_action(<<"REQUIRE", "MFA">>)>>,
                <<"enabled">>) :
        c \in {<<"location", "in", "\"", "Sales", "\"", "[", "g1", "]">>,
               <<"location", "in", "\"", "HR", "\"", "[", "g2", "]">>,
               <<"app", "in", "\"", "Sales", "\"", "[", "g1", "]">>,
               <<"app", "in", "\"", "HR", "\"", "[", "g2", "]">>}}
    \cup {PolicyPath(<<_parse_condition(<<"location", "in", "\"", "HR", "\"", "[", "g2", "]">>,
                                        <<>>)>>,
                     <<_parse_action(<<"BLOCK">>)>>, <<"enabled">>)}

PathLists ==
    {<<>>}
    \cup UNION {[1..n -> F] : n \in 1..MaxPaths,
                              F \in {PathPool, MergePaths, GroupPaths, SessionPaths,
                                     LocationPaths}}

\* Decision trees handed to the path extractor on its own.
BranchOf(conditions, actions, state, nested_if) ==
    [conditions |-> conditions, actions |-> actions, state |-> state, nested_if |-> nested_if]

StatementOf(if_branch, else_if_branches, else_branch) ==
    [if_branch |-> if_branch, else_if_branches |-> else_if_branches,
     else_branch |-> else_branch]

LeafIf ==
    {BranchOf(<<_parse_condition(<<"platform", "is", "Windows">>, <<>>)>>,
              <<_parse_action(<<"BLOCK">>)>>, <<"enabled">>, None),
     BranchOf(<<_parse_condition(<<"platform", "is", "iOS">>, <<>>)>>,
              <<_parse_action(<<"REQUIRE", "MFA">>)>>, <<"report-only">>, None)}

LeafElseIf1 ==
    BranchOf(<<_parse_condition(<<"platform", "is", "macOS">>, <<>>)>>,
             <<_parse_action(<<"REQUIRE", "MFA">>)>>, <<"enabled">>, None)

LeafElseIf2 ==
    BranchOf(<<_parse_condition(<<"platform", "is", "Android">>, <<>>)>>,
             <<_parse_action(<<"BLOCK">>)>>, <<"enabled">>, None)

\* The branch of ELSE has no conditions (line 174).
LeafElse == BranchOf(<<>>, <<_parse_action(<<"ALLOW">>)>>, <<"report-only">>, None)

\* Decisions without a nested Decision.
FlatStatements ==
    {StatementOf(b, ei, e) :
        b \in LeafIf,
        ei \in {<<>>, <<LeafElseIf1>>, <<LeafElseIf1, LeafElseIf2>>},
        e \in {None, <<LeafElse>>}}

\* The condition of the branch that encloses a Decision of depth d - 1.
EnclosingCondition(d) ==
    IF d = 2 THEN _parse_condition(<<"device", "is", "Compliant">>, <<>>)
    ELSE IF d = 3 THEN _parse_condition(Group1, <<>>)
    ELSE _parse_condition(Group2, <<>>)

\* Decisions of nesting depth d: a Decision of depth d - 1 inside the IF branch
\* (with or without actions written on that branch), inside an ELSE IF branch
\* or inside the ELSE branch.
RECURSIVE Statements(_)
Statements(d) ==
    IF d <= 1 THEN FlatStatements
    ELSE {StatementOf(BranchOf(<<EnclosingCondition(d)>>, a, <<"enabled">>, <<inner>>),
                      <<>>, None) :
            a \in {<<>>, <<_parse_action(<<"BLOCK">>)>>}, inner \in Statements(d - 1)}
         \cup {StatementOf(CHOOSE b \in LeafIf : b.state = <<"enabled">>,
                           <<BranchOf(<<EnclosingCondition(d)>>, <<>>, <<"enabled">>, <<inner>>)>>,
                           <<LeafElse>>) :
                 inner \in Statements(d - 1)}
         \cup {StatementOf(CHOOSE b \in LeafIf : b.state = <<"enabled">>,
                           <<LeafElseIf1>>,
                           <<BranchOf(<<>>, <<>>, <<"enabled">>, <<inner>>)>>) :
                 inner \in Statements(d - 1)}

StatementLists ==
    {<<st>> : st \in UNION {Statements(d) : d \in 1..MaxDepth}}
    \cup {<<st, st2>> : st \in FlatStatements, st2 \in FlatStatements}

-----------------------------------------------------------------------------
(* main: the pipeline as a state machine *)

Init ==
    /\ files \in FileLists
    /\ fileIdx = 0
    /\ variables = <<>>
    /\ all_statements = <<>>
    /\ all_paths = <<>>
    /\ policies = <<>>
    /\ policy_counter = 1
    /\ written = <<>>
    /\ pc = "parse"
    /\ hashSeed \in 1..NSeeds
    /\ run = 1
    /\ prevPolicies = <<>>

\* One turn of `for capl_file in capl_files` (lines 825-833)
ParseFile ==
    /\ pc = "parse"
    /\ fileIdx < Len(files)
    /\ files[fileIdx + 1] # Unreadable
    /\ LET r == parse_file(files[fileIdx + 1], variables) IN
        /\ all_statements' = all_statements \o r.statements
        /\ variables' = r.variables
    /\ fileIdx' = fileIdx + 1
    /\ UNCHANGED <<files, all_paths, policies, policy_counter, written, pc, hashSeed,
                   run, prevPolicies>>

\* A main that leaves the loop over the files after the first file.
EndParse_after_first_file ==
    /\ pc = "parse"
    /\ fileIdx >= 1
    /\ pc' = IF all_statements = <<>> THEN "exit1" ELSE "extract"
    /\ UNCHANGED <<files, fileIdx, variables, all_statements, all_paths, policies,
                   policy_counter, written, hashSeed, run, prevPolicies>>

\* After the loop (lines 837-839)
EndParse ==
    /\ pc = "parse"
    /\ fileIdx = Len(files)
    /\ pc' = IF all_statements = <<>> THEN "exit1" ELSE "extract"
    /\ UNCHANGED <<files, fileIdx, variables, all_statements, all_paths, policies,
                   policy_counter, written, hashSeed, run, prevPolicies>>

\* lines 843-844
ExtractPaths ==
    /\ pc = "extract"
    /\ all_paths' = extract_paths(all_statements)
    /\ pc' = "optimize"
    /\ UNCHANGED <<files, fileIdx, variables, all_statements, policies, policy_counter,
                   written, hashSeed, run, prevPolicies>>

\* lines 850-851: a new PolicyOptimizer (counter 1) and one optimize call
Optimize ==
    /\ pc = "optimize"
    /\ policies' = optimize(all_paths, 1, hashSeed)
    /\ policy_counter' = 1 + Len(policies')
    /\ pc' = "save"
    /\ UNCHANGED <<files, fileIdx, variables, all_statements, all_paths, written,
                   hashSeed, run, prevPolicies>>

\* One turn of `for i, policy in enumerate(policies, 1)` (lines 860-867)
SavePolicy ==
    /\ pc = "save"
    /\ Len(written) < Len(policies)
    /\ written' = Append(written, policies[Len(written) + 1])
    /\ UNCHANGED <<files, fileIdx, variables, all_statements, all_paths, policies,
                   policy_counter, pc, hashSeed, run, prevPolicies>>

\* line 878
Finish ==
    /\ pc = "save"
    /\ Len(written) = Len(policies)
    /\ pc' = "exit0"
    /\ UNCHANGED <<files, fileIdx, variables, all_statements, all_paths, policies,
                   policy_counter, written, hashSeed, run, prevPolicies>>

\* The program is started again on the same input folder: a new process, with a
\* new hash seed, a new parser and a new optimizer.
Rerun ==
    /\ pc = "exit0"
    /\ run < MaxRuns
    /\ run' = run + 1
    /\ prevPolicies' = policies
    /\ hashSeed' \in 1..NSeeds
    /\ fileIdx' = 0
    /\ variables' = <<>>
    /\ all_statements' = <<>>
    /\ all_paths' = <<>>
    /\ policies' = <<>>
    /\ policy_counter' = 1
    /\ written' = <<>>
    /\ pc' = "parse"
    /\ UNCHANGED files

Next == ParseFile \/ EndParse \/ ExtractPaths \/ Optimize \/ SavePolicy \/ Finish \/ Rerun

Spec == Init /\ [][Next]_vars

\* The optimizer called on a list of FlatPaths (PolicyOptimizer().optimize(paths),
\* then the save loop): the pipeline from line 850 on.
InitOpt ==
    /\ files = <<>>
    /\ fileIdx = 0
    /\ variables = <<>>
    /\ all_statements = <<>>
    /\ all_paths \in PathLists
    /\ policies = <<>>
    /\ policy_counter = 1
    /\ written = <<>>
    /\ pc = "optimize"
    /\ hashSeed \in 1..NSeeds
    /\ run = 1
    /\ prevPolicies = <<>>

NextOpt == Optimize \/ SavePolicy \/ Finish

SpecOpt == InitOpt /\ [][NextOpt]_vars

\* The extractor called on a list of Decisions (PathExtractor().extract_paths),
\* then the rest of the pipeline: main from line 843 on.
InitTree ==
    /\ files = <<>>
    /\ fileIdx = 0
    /\ variables = <<>>
    /\ all_statements \in StatementLists
    /\ all_paths = <<>>
    /\ policies = <<>>
    /\ policy_counter = 1
    /\ written = <<>>
    /\ pc = "extract"
    /\ hashSeed \in 1..NSeeds
    /\ run = 1
    /\ prevPolicies = <<>>

NextTree == ExtractPaths \/ Optimize \/ SavePolicy \/ Finish

SpecTree == InitTree /\ [][NextTree]_vars

\* One turn of the loop over the files in which open() raises (line 108): the
\* handler of lines 830-833 reports the file, and the loop goes on.
ParseFileFails ==
    /\ pc = "parse"
    /\ fileIdx < Len(files)
    /\ files[fileIdx + 1] = Unreadable
    /\ fileIdx' = fileIdx + 1
    /\ UNCHANGED <<files, variables, all_statements, all_paths, policies, policy_counter,
                   written, pc, hashSeed, run, prevPolicies>>

\* One turn of the save loop in which open() or yaml.dump raises (lines 864-865):
\* nothing catches it, main is left by the exception and the process ends with
\* a traceback and exit status 1.
SavePolicyFails ==
    /\ pc = "save"
    /\ Len(written) < Len(policies)
    /\ pc' = "traceback"
    /\ UNCHANGED <<files, fileIdx, variables, all_statements, all_paths, policies,
                   policy_counter, written, hashSeed, run, prevPolicies>>

\* One process run over a folder whose files may be unreadable and whose output
\* files may be unwritable.
InitIO ==
    /\ files \in IOFileLists
    /\ fileIdx = 0
    /\ variables = <<>>
    /\ all_statements = <<>>
    /\ all_paths = <<>>
    /\ policies = <<>>
    /\ policy_counter = 1
    /\ written = <<>>
    /\ pc = "parse"
    /\ hashSeed \in 1..NSeeds
    /\ run = 1
    /\ prevPolicies = <<>>

NextIO ==
    ParseFile \/ ParseFileFails \/ EndParse \/ ExtractPaths \/ Optimize \/ SavePolicy
    \/ SavePolicyFails \/ Finish

SpecIO == InitIO /\ [][NextIO]_vars

\* The parser called on one file of any lines (CAPLParser().parse_file), up to
\* the test of lines 837-839.
InitLines ==
    /\ files \in {<<f>> : f \in AnyFiles}
    /\ fileIdx = 0
    /\ variables = <<>>
    /\ all_statements = <<>>
    /\ all_paths = <<>>
    /\ policies = <<>>
    /\ policy_counter = 1
    /\ written = <<>>
    /\ pc = "parse"
    /\ hashSeed = 1
    /\ run = 1
    /\ prevPolicies = <<>>

NextLines == ParseFile \/ EndParse

SpecLines == InitLines /\ [][NextLines]_vars

-----------------------------------------------------------------------------
(* Properties of the pipeline *)

\* optimize has returned: the records of the run are in policies.
Compiled == pc \in {"save", "exit0"}

\* The cluster keys of a FlatPath list in the order of their first appearance.
RECURSIVE FirstSeen(_, _)
FirstSeen(paths, seen) ==
    IF paths = <<>> THEN <<>>
    ELSE LET k == full_signature(Head(paths)) IN
         IF k \in seen THEN FirstSeen(Tail(paths), seen)
         ELSE <<k>> \o FirstSeen(Tail(paths), seen \cup {k})

FirstSeenKeys == FirstSeen(all_paths, {})

\* The FlatPaths that share the k-th key, in input order.
PathsOfKey(k) == SelectSeq(all_paths, LAMBDA p : full_signature(p) = FirstSeenKeys[k])

\* The position of the record a FlatPath went into.
RecordIndex(p) == CHOOSE k \in 1..Len(FirstSeenKeys) : FirstSeenKeys[k] = full_signature(p)

HasBlock(p) == \E i \in 1..Len(p.actions) : p.actions[i].type = "BLOCK"

\* Access scenarios: one value for the platform kind and one for the device kind.
Scenarios ==
    [platform : {<<"Windows">>, <<"macOS">>, <<"iOS">>},
     device : {<<"Compliant">>, <<"Unmanaged">>}]

\* A condition of a kind the scenarios give a value to.
ScenarioCondition(c) ==
    /\ ~c.is_negated
    /\ c.operator = "is"
    /\ \/ c.type = "platform"
       \/ c.type = "device" /\ c.value = <<"Compliant">>

ScenarioPath(p) == \A i \in 1..Len(p.conditions) : ScenarioCondition(p.conditions[i])

\* A path applies when all of its conditions hold.
PathApplies(p, sc) ==
    \A i \in 1..Len(p.conditions) :
        LET c == p.conditions[i] IN
        /\ c.type = "platform" => sc.platform = c.value
        /\ c.type = "device" => sc.device = c.value

\* A record applies when all of its condition sections match.
RecordApplies(rec, sc) ==
    LET cond == rec["Conditions"] IN
    /\ "Platforms" \in DOMAIN cond =>
          \E i \in 1..Len(cond["Platforms"]["IncludePlatforms"]) :
              cond["Platforms"]["IncludePlatforms"][i] = sc.platform
    /\ "DeviceStates" \in DOMAIN cond =>
          ("CompliantDevice" \in DOMAIN cond["DeviceStates"] => sc.device = <<"Compliant">>)

\* C1: for every list of FlatPaths and every access scenario, the record of a
\* cluster applies to exactly the scenarios that some FlatPath of the cluster
\* applies to: merging neither adds scenarios to nor removes scenarios from the
\* set covered by the cluster's paths.
C1_MergeKeepsCoveredScenarios ==
    Compiled =>
        \A k \in 1..Len(policies) :
            (\A i \in 1..Len(PathsOfKey(k)) : ScenarioPath(PathsOfKey(k)[i])) =>
                \A sc \in Scenarios :
                    RecordApplies(policies[k], sc)
                        <=> \E i \in 1..Len(PathsOfKey(k)) : PathApplies(PathsOfKey(k)[i], sc)

\* A source file of the form IF c / STATE s / a / ELSE IF c2 / STATE s2 / a2 / END,
\* the ELSE IF at the indentation of the IF.
ElseIfFile(f) ==
    /\ Len(f) = 7
    /\ StartsWithSp(f[1].text, <<"IF">>)
    /\ StartsWithSp(f[2].text, <<"STATE">>)
    /\ IsActionLine(f[3].text)
    /\ StartsWithSp(f[4].text, <<"ELSE", "IF">>)
    /\ f[4].indent = f[1].indent
    /\ StartsWithSp(f[5].text, <<"STATE">>)
    /\ IsActionLine(f[6].text)
    /\ f[7].text = <<"END">>

\* C2: an ELSE IF line at the indentation of the IF adds one else-if Branch to
\* the Decision, with the condition of that line, and the STATE and action lines
\* after it belong to the new Branch and not to the IF Branch.
C2_ElseIfAddsBranch ==
    (fileIdx >= 1 /\ ElseIfFile(files[1])) =>
        /\ Len(all_statements) >= 1
        /\ Len(all_statements[1].else_if_branches) = 1
        /\ all_statements[1].else_if_branches[1].conditions
              = <<_parse_condition(DropAtoms(files[1][4].text, 2), <<>>)>>
        /\ all_statements[1].else_if_branches[1].state = DropAtoms(files[1][5].text, 1)
        /\ all_statements[1].else_if_branches[1].actions = <<_parse_action(files[1][6].text)>>
        /\ all_statements[1].if_branch.state = DropAtoms(files[1][2].text, 1)
        /\ all_statements[1].if_branch.actions = <<_parse_action(files[1][3].text)>>

\* A condition text of the OR-list form: K is A OR K is B, K platform or client.
OrListText(t) ==
    /\ Len(t) = 7
    /\ t[1] \in {"platform", "client"}
    /\ t[2] = "is" /\ t[4] = "OR" /\ t[5] = t[1] /\ t[6] = "is"

\* C3: a condition line of the OR-list form gives one Condition with operator
\* is-or whose value is the pipe-delimited list of all the alternatives.
C3_OrListGivesIsOr ==
    (fileIdx >= 1 /\ StartsWithSp(files[1][1].text, <<"IF">>)
        /\ OrListText(DropAtoms(files[1][1].text, 1))) =>
        /\ Len(all_statements) >= 1
        /\ Len(all_statements[1].if_branch.conditions) >= 1
        /\ all_statements[1].if_branch.conditions[1]
              = Condition(files[1][1].text[2], "is-or",
                          <<files[1][1].text[4], "|", files[1][1].text[8]>>, None, FALSE)

\* The Decisions of a list of files, each file parsed with a variable table of
\* its own.
RECURSIVE ParsedAlone(_)
ParsedAlone(fs) ==
    IF fs = <<>> THEN <<>>
    ELSE parse_file(Head(fs), <<>>).statements \o ParsedAlone(Tail(fs))

\* C4: the variable table is scoped to one source file: the Decisions parsed
\* from a run over several files are those each file gives when it is parsed
\* on its own, so a VAR of one file changes nothing in another.
C4_VariablesScopedToFile ==
    all_statements = ParsedAlone(SubSeq(files, 1, fileIdx))

\* A source text without its blank and comment lines.
WithoutBlanks(f) == SelectSeq(f, LAMBDA l : ~IsBlankOrComment(l.text))

\* C5: blank and comment lines are skipped everywhere: a source text with a
\* blank or comment line at any position parses to the same Decisions as the
\* text without it.
C5_BlankLinesSkipped ==
    (Len(files) = 1 /\ fileIdx = 1) =>
        all_statements = parse_file(WithoutBlanks(files[1]), <<>>).statements

\* C6: compiling the same FlatPaths a second time gives the same list of
\* records: same number, same names, same contents in the same order.
C6_SameRecordsEveryRun ==
    (run >= 2 /\ Compiled) => policies = prevPolicies

\* C7: records are emitted in the order in which their cluster keys first
\* appear, the i-th record is named Generated-Policy-i, the counter starts at 1
\* and goes up once per record, and no two records share a name.
C7_SequentialNamesInFirstSeenOrder ==
    Compiled =>
        /\ Len(policies) = Len(FirstSeenKeys)
        /\ policy_counter = Len(policies) + 1
        /\ \A i \in 1..Len(policies) :
              /\ policies[i]["DisplayName"] = <<"Generated-Policy-", i>>
              /\ policies[i] = _merge_cluster(FirstSeenKeys[i], PathsOfKey(i), i, hashSeed)
        /\ \A i, j \in 1..Len(policies) :
              i # j => policies[i]["DisplayName"] # policies[j]["DisplayName"]

\* Three FlatPaths compiled, the third of the cluster of the first, the second
\* of another one.
C7_Witness ==
    /\ Compiled
    /\ Len(all_paths) = 3
    /\ full_signature(all_paths[1]) = full_signature(all_paths[3])
    /\ full_signature(all_paths[1]) # full_signature(all_paths[2])
    /\ Len(policies) = 2

\* C8: FlatPaths of different states never share a cluster: the State of a
\* record is the state of every FlatPath it was built from.
C8_RecordStateIsPathState ==
    Compiled =>
        \A i \in 1..Len(all_paths) :
            policies[RecordIndex(all_paths[i])]["State"] = all_paths[i].state

\* The control names of the REQUIRE actions of a path, every pipe-delimited
\* list exploded.
RECURSIVE ExplodedControls(_)
ExplodedControls(actions) ==
    IF actions = <<>> THEN <<>>
    ELSE (IF Head(actions).type = "REQUIRE" /\ Head(actions).value # <<>>
          THEN Split(Head(actions).value, <<"|">>) ELSE <<>>)
         \o ExplodedControls(Tail(actions))

\* C9: for a FlatPath without a block action the grant component of the
\* signature is made of the exploded control names, sorted, so two such paths
\* of the same state and session actions whose REQUIRE actions name the same
\* controls (REQUIRE A OR B, REQUIRE B OR A) get the same cluster key.
C9_SignatureExplodesAlternatives ==
    \A i, j \in 1..Len(all_paths) :
        (/\ ~HasBlock(all_paths[i]) /\ ~HasBlock(all_paths[j])
         /\ all_paths[i].state = all_paths[j].state
         /\ SortTexts(ValuesOf(all_paths[i].actions, "SESSION"))
               = SortTexts(ValuesOf(all_paths[j].actions, "SESSION"))
         /\ SortTexts(ExplodedControls(all_paths[i].actions))
               = SortTexts(ExplodedControls(all_paths[j].actions)))
        => full_signature(all_paths[i]) = full_signature(all_paths[j])

\* C10: block overrides grants: the record of a FlatPath whose actions contain
\* a BLOCK has GrantControls {Operator: OR, BuiltInControls: [block]}, whatever
\* REQUIRE or ALLOW actions stand with it and in whatever order.
C10_BlockOverridesGrants ==
    Compiled =>
        \A i \in 1..Len(all_paths) :
            HasBlock(all_paths[i]) =>
                /\ "GrantControls" \in DOMAIN policies[RecordIndex(all_paths[i])]
                /\ policies[RecordIndex(all_paths[i])]["GrantControls"]
                      = [Operator |-> "OR", BuiltInControls |-> <<<<"block">>>>]

\* A compiled Branch whose BLOCK stands after a REQUIRE.
C10_Witness ==
    /\ Compiled
    /\ \E i \in 1..Len(all_paths) :
          \E a, b \in 1..Len(all_paths[i].actions) :
              /\ a < b
              /\ all_paths[i].actions[a].type = "REQUIRE"
              /\ all_paths[i].actions[b].type = "BLOCK"

\* The conditions of kind t of the FlatPaths of the k-th cluster, in input order,
\* and what the merge of that cluster leaves of the kind.
KindConditions(k, t) == SelectSeq(AllConditions(PathsOfKey(k)), LAMBDA c : c.type = t)
MergedOfKind(k, t) ==
    SelectSeq(merged_conditions(PathsOfKey(k), hashSeed), LAMBDA c : c.type = t)

\* The literal values of a list of conditions, an is-or value counted as its
\* alternatives.
LiteralValues(conds) ==
    {v \in UNION {Range(Split(conds[i].value, <<"|">>)) \cup {conds[i].value} :
                    i \in 1..Len(conds)} :
        \E i \in 1..Len(conds) :
            IF conds[i].operator = "is-or"
            THEN \E j \in 1..Len(Split(conds[i].value, <<"|">>)) :
                    Split(conds[i].value, <<"|">>)[j] = v
            ELSE conds[i].value = v}

\* C11: for a list-capable kind the merge of a cluster leaves exactly one
\* Condition of the kind: with more than one literal value in the cluster it is
\* an is-or Condition whose value is the sorted values joined by |, with one
\* value it is the first Condition of the kind, unchanged; the record is built
\* from the merged conditions.
C11_ListCapableUnion ==
    Compiled =>
        \A k \in 1..Len(policies) :
            /\ policies[k]["Conditions"]
                  = _build_conditions_dict(merged_conditions(PathsOfKey(k), hashSeed), hashSeed)
            /\ \A t \in {"platform", "location", "client", "app"} :
                  IF KindConditions(k, t) = <<>> THEN MergedOfKind(k, t) = <<>>
                  ELSE /\ Len(MergedOfKind(k, t)) = 1
                       /\ IF Cardinality(LiteralValues(KindConditions(k, t))) > 1
                          THEN LET m == MergedOfKind(k, t)[1]
                                   parts == Split(m.value, <<"|">>)
                               IN /\ m.type = t
                                  /\ m.operator = "is-or"
                                  /\ Range(parts) = LiteralValues(KindConditions(k, t))
                                  /\ \A i \in 1..(Len(parts) - 1) : TextLess(parts[i], parts[i + 1])
                          ELSE MergedOfKind(k, t)[1] = KindConditions(k, t)[1]

\* A cluster whose platform conditions carry several values, one of them in an
\* is-or Condition.
C11_Witness ==
    /\ Compiled
    /\ \E k \in 1..Len(policies) :
          /\ Cardinality(LiteralValues(KindConditions(k, "platform"))) > 2
          /\ \E i \in 1..Len(KindConditions(k, "platform")) :
                KindConditions(k, "platform")[i].operator = "is-or"
          /\ \E i \in 1..Len(KindConditions(k, "platform")) :
                KindConditions(k, "platform")[i].operator = "is"

\* The first condition of a list that carries an identifier.
FirstOccurrence(conds, id) ==
    conds[CHOOSE i \in 1..Len(conds) :
            /\ conds[i].guid = id
            /\ \A j \in 1..(i - 1) : conds[j].guid # id]

\* The entries of a list of the Users section of a record.
UsersList(rec, key) ==
    IF "Users" \in DOMAIN rec["Conditions"]
    THEN IF key \in DOMAIN rec["Conditions"]["Users"]
         THEN rec["Conditions"]["Users"][key] ELSE <<>>
    ELSE <<>>

\* C12: for user-group and user-role conditions the merge of a cluster leaves
\* exactly one Condition per distinct identifier of the cluster, with the value
\* and the negated flag of the first occurrence of the identifier, and the
\* record lists every included group once.
C12_IdentifierDedup ==
    Compiled =>
        \A k \in 1..Len(policies) :
            /\ \A t \in {"user-group", "user-role"} :
                  LET cs == KindConditions(k, t)
                      ids == {cs[i].guid : i \in 1..Len(cs)} \ {None}
                      m == MergedOfKind(k, t)
                  IN /\ Len(m) = Cardinality(ids)
                     /\ {m[i].guid : i \in 1..Len(m)} = ids
                     /\ \A i \in 1..Len(m) :
                           m[i] = Condition(t, "in", FirstOccurrence(cs, m[i].guid).value,
                                            m[i].guid, FirstOccurrence(cs, m[i].guid).is_negated)
            /\ LET inc == UsersList(policies[k], "IncludeGroups")
                   m == MergedOfKind(k, "user-group")
               IN /\ \A i, j \in 1..Len(inc) : i # j => inc[i] # inc[j]
                  /\ Range(inc) = {m[i].guid : i \in {j \in 1..Len(m) : ~m[j].is_negated}}

\* A cluster that names one group twice, under two display names.
C12_Witness ==
    /\ Compiled
    /\ \E k \in 1..Len(policies) :
          \E i, j \in 1..Len(KindConditions(k, "user-group")) :
              /\ i < j
              /\ KindConditions(k, "user-group")[i].guid = KindConditions(k, "user-group")[j].guid
              /\ KindConditions(k, "user-group")[i].guid # None
              /\ KindConditions(k, "user-group")[i].value # KindConditions(k, "user-group")[j].value

\* extract_paths has returned: the FlatPaths of the run are in all_paths.
Extracted == pc \in {"optimize", "save", "exit0"}

\* The leaf Branches of a decision tree, depth first, the if Branch of a Decision
\* before its else-if Branches and those before its else Branch.  Every leaf
\* comes with the Branches from the root down to it (chain), its place in its
\* own Decision (role) and the conditions of the earlier siblings of the
\* Branches of its chain (siblings).
RECURSIVE ConditionsOf(_)
ConditionsOf(branches) ==
    IF branches = <<>> THEN <<>>
    ELSE Head(branches).conditions \o ConditionsOf(Tail(branches))

RECURSIVE LeavesOfStatement(_, _, _)
RECURSIVE LeavesOfElseIfs(_, _, _, _)
LeavesOfBranch(branch, role, chain, siblings) ==
    IF branch.nested_if # None
    THEN LeavesOfStatement(branch.nested_if[1], Append(chain, branch), siblings)
    ELSE <<[chain |-> Append(chain, branch), role |-> role, siblings |-> siblings]>>

LeavesOfElseIfs(stmt, j, chain, siblings) ==
    IF j > Len(stmt.else_if_branches) THEN <<>>
    ELSE LeavesOfBranch(stmt.else_if_branches[j], "else-if", chain,
                        siblings \o stmt.if_branch.conditions
                            \o ConditionsOf(SubSeq(stmt.else_if_branches, 1, j - 1)))
         \o LeavesOfElseIfs(stmt, j + 1, chain, siblings)

LeavesOfStatement(stmt, chain, siblings) ==
    LeavesOfBranch(stmt.if_branch, "if", chain, siblings)
    \o LeavesOfElseIfs(stmt, 1, chain, siblings)
    \o (IF stmt.else_branch # None
        THEN LeavesOfBranch(stmt.else_branch[1], "else", chain,
                            siblings \o stmt.if_branch.conditions
                                \o ConditionsOf(stmt.else_if_branches))
        ELSE <<>>)

RECURSIVE LeavesOf(_)
LeavesOf(statements) ==
    IF statements = <<>> THEN <<>>
    ELSE LeavesOfStatement(Head(statements), <<>>, <<>>) \o LeavesOf(Tail(statements))

\* The FlatPath of a leaf: the conditions of its chain from the root down, the
\* actions and the state of the leaf Branch.
PathOfLeaf(leaf) ==
    [conditions |-> ConditionsOf(leaf.chain),
     actions |-> leaf.chain[Len(leaf.chain)].actions,
     state |-> leaf.chain[Len(leaf.chain)].state]

\* C13: for every leaf Branch of a decision tree of any depth there is a
\* FlatPath whose conditions are those of the enclosing Branches from the root
\* down followed by the leaf's own, and whose actions and state are the leaf's;
\* and every FlatPath is that of a leaf.
C13_PathAccumulatesAncestors ==
    Extracted =>
        {all_paths[i] : i \in 1..Len(all_paths)}
            = {PathOfLeaf(LeavesOf(all_statements)[i]) : i \in 1..Len(LeavesOf(all_statements))}

\* A FlatPath of a leaf three Branches deep.
C13_Witness ==
    /\ Extracted
    /\ \E i \in 1..Len(LeavesOf(all_statements)) :
          /\ Len(LeavesOf(all_statements)[i].chain) = 3
          /\ Len(all_paths[i].conditions) = 3

\* The number of Branches without a nested Decision in a list of Decisions.
RECURSIVE BranchCount(_)
RECURSIVE StatementCount(_)
BranchCount(branches) ==
    IF branches = <<>> THEN 0
    ELSE (IF Head(branches).nested_if # None
          THEN StatementCount(Head(branches).nested_if)
          ELSE 1)
         + BranchCount(Tail(branches))

StatementCount(statements) ==
    IF statements = <<>> THEN 0
    ELSE BranchCount(<<Head(statements).if_branch>>)
         + BranchCount(Head(statements).else_if_branches)
         + BranchCount(Head(statements).else_branch)
         + StatementCount(Tail(statements))

\* C14: one FlatPath per Branch without a nested Decision and none for a Branch
\* with one; the FlatPaths come depth first, in each Decision the if Branch,
\* then the else-if Branches in source order, then the else Branch, the
\* top-level Decisions in source order.
C14_OnePathPerLeafInOrder ==
    Extracted =>
        /\ Len(all_paths) = StatementCount(all_statements)
        /\ Len(all_paths) = Len(LeavesOf(all_statements))
        /\ \A i \in 1..Len(all_paths) : all_paths[i] = PathOfLeaf(LeavesOf(all_statements)[i])

\* A Decision with two else-if Branches and an else Branch, and a Branch that
\* has actions and a nested Decision.
C14_Witness ==
    /\ Extracted
    /\ \E i \in 1..Len(all_statements) :
          /\ all_statements[i].if_branch.nested_if # None
          /\ all_statements[i].if_branch.actions # <<>>
          /\ Len(all_statements[i].if_branch.nested_if[1].else_if_branches) = 2
          /\ all_statements[i].if_branch.nested_if[1].else_branch # None
    /\ Len(all_paths) = 4

\* C15: sibling Branches are not made exclusive: the FlatPath of an else-if or
\* else Branch holds the conditions of its chain and nothing made from the
\* conditions of earlier siblings, plain or negated; the conditions of an else
\* FlatPath are those accumulated above it.
C15_SiblingsNotExclusive ==
    Extracted =>
        \A i \in 1..Len(LeavesOf(all_statements)) :
            LET leaf == LeavesOf(all_statements)[i]
                own == ConditionsOf(leaf.chain)
            IN /\ i <= Len(all_paths)
               /\ leaf.role \in {"else-if", "else"} =>
                      Len(all_paths[i].conditions) = Len(own)
               /\ leaf.role = "else" =>
                      all_paths[i].conditions
                          = ConditionsOf(SubSeq(leaf.chain, 1, Len(leaf.chain) - 1))
               /\ \A j \in 1..Len(leaf.siblings) :
                      \A k \in 1..Len(all_paths[i].conditions) :
                          \/ (k <= Len(own) /\ all_paths[i].conditions[k] = own[k])
                          \/ /\ all_paths[i].conditions[k] # leaf.siblings[j]
                             /\ all_paths[i].conditions[k]
                                   # [leaf.siblings[j] EXCEPT !.is_negated = ~@]

\* The FlatPaths of a Decision with an if, two else-if and an else Branch.
C15_Witness ==
    /\ Extracted
    /\ \E i \in 1..Len(LeavesOf(all_statements)) :
          /\ LeavesOf(all_statements)[i].role = "else"
          /\ Len(LeavesOf(all_statements)[i].siblings) >= 3
          /\ all_paths[i].conditions = <<>>

\* C16: a Decision that meets an END line at or left of the indentation of its
\* own IF ends there and consumes the line: the parse of a Decision, top-level
\* or nested, never returns with the cursor on such an END.
C16_EndConsumed ==
    \A f \in 1..fileIdx :
        \A i \in 1..Len(files[f]) :
            StartsWithSp(files[f][i].text, <<"IF">>) =>
                LET r == _parse_if_statement(files[f], <<>>, i - 1, files[f][i].indent) IN
                r.ln < Len(files[f]) =>
                    ~(/\ files[f][r.ln + 1].text = <<"END">>
                      /\ files[f][r.ln + 1].indent <= files[f][i].indent)

\* A source file of the form IF c / STATE s / a / ELSE / a2 / END: the ELSE
\* branch has an action line and no STATE line.
ElseWithoutStateFile(f) ==
    /\ Len(f) = 6
    /\ StartsWithSp(f[1].text, <<"IF">>)
    /\ StartsWithSp(f[2].text, <<"STATE">>)
    /\ IsActionLine(f[3].text)
    /\ f[4].text = <<"ELSE">>
    /\ IsActionLine(f[5].text)
    /\ f[6].text = <<"END">>

\* C17: action lines are appended to a Branch only after a STATE line of that
\* Branch has been consumed: a Branch whose body has no STATE line collects no
\* actions, and the Branch before it keeps the actions of its own lines.
C17_ActionsOnlyAfterState ==
    (fileIdx >= 1 /\ ElseWithoutStateFile(files[1])) =>
        /\ Len(all_statements) >= 1
        /\ all_statements[1].if_branch.actions = <<_parse_action(files[1][3].text)>>
        /\ all_statements[1].else_branch # None
        /\ all_statements[1].else_branch[1].actions = <<>>

\* Every Branch of a list of Decisions, the nested ones included.
RECURSIVE BranchesOf(_)
BranchesOf(statements) ==
    IF statements = <<>> THEN {}
    ELSE LET st == Head(statements)
             here == {st.if_branch} \cup Range(st.else_if_branches) \cup Range(st.else_branch)
         IN here
            \cup UNION {BranchesOf(b.nested_if) : b \in here}
            \cup BranchesOf(Tail(statements))

EnforcementStates == {<<"enabled">>, <<"disabled">>, <<"report-only">>}

\* C18: the state of every parsed Branch, of every FlatPath and of every record
\* is one of enabled, disabled, report-only, whatever the input text.
C18_StateInDomain ==
    /\ \A b \in BranchesOf(all_statements) : b.state \in EnforcementStates
    /\ \A i \in 1..Len(all_paths) : all_paths[i].state \in EnforcementStates
    /\ \A i \in 1..Len(policies) : policies[i]["State"] \in EnforcementStates

\* A source file of the form IF c / c2 / STATE s / a / a2 / END after n VAR
\* lines, c2 a plain condition line.
TwoConditionFile(f, n) ==
    /\ Len(f) = n + 6
    /\ \A i \in 1..n : StartsWithSp(f[i].text, <<"VAR">>)
    /\ StartsWithSp(f[n + 1].text, <<"IF">>)
    /\ ~StartsWithSp(f[n + 2].text, <<"IF">>)
    /\ ~StartsWithSp(f[n + 2].text, <<"STATE">>)
    /\ ~IsBlankOrComment(f[n + 2].text)
    /\ f[n + 2].text \notin {<<"ELSE">>, <<"END">>}
    /\ StartsWithSp(f[n + 3].text, <<"STATE">>)
    /\ IsActionLine(f[n + 4].text)
    /\ IsActionLine(f[n + 5].text)
    /\ f[n + 6].text = <<"END">>

\* The variable table after the first n lines of a file, all VAR lines.
RECURSIVE TableOf(_, _)
TableOf(f, n) == IF n = 0 THEN <<>> ELSE _parse_variable(f[n].text, TableOf(f, n - 1))

\* What a condition text stands for: its Condition when it matches a pattern,
\* else one Condition of kind unknown with the raw text as its value.
ConditionOrUnknown(raw, table) ==
    IF _parse_condition(raw, table).type = "unknown"
    THEN Condition("unknown", "is", raw, None, FALSE)
    ELSE _parse_condition(raw, table)

\* C19: a condition line that matches no pattern gives exactly one Condition
\* of kind unknown with the raw text of the line as its value, takes one line,
\* and the lines after it are parsed as after a well-formed condition line.
C19_UnknownConditionKeepsRawText ==
    \A n \in 0..1 :
        (fileIdx >= 1 /\ TwoConditionFile(files[1], n)) =>
            /\ Len(all_statements) = 1
            /\ all_statements[1]
                  = [if_branch |->
                        [conditions |->
                            <<ConditionOrUnknown(DropAtoms(files[1][n + 1].text, 1),
                                                 TableOf(files[1], n)),
                              ConditionOrUnknown(files[1][n + 2].text, TableOf(files[1], n))>>,
                         actions |-> <<_parse_action(files[1][n + 4].text),
                                       _parse_action(files[1][n + 5].text)>>,
                         state |-> DropAtoms(files[1][n + 3].text, 1),
                         nested_if |-> None],
                     else_if_branches |-> <<>>,
                     else_branch |-> None]

\* The grant control names of the vocabulary, each with the value it is written as.
GrantVocabulary ==
    {<<"MFA", "mfa">>, <<"CompliantDevice", "compliantDevice">>,
     <<"HybridJoined", "domainJoinedDevice">>}

\* f is IF <condition> / STATE <state> / REQUIRE g / END and nothing else
SingleRequireFile(f, g) ==
    /\ Len(f) = 4
    /\ f[1].text # <<>> /\ Head(f[1].text) = "IF"
    /\ f[2].text # <<>> /\ Head(f[2].text) = "STATE"
    /\ f[3].text = <<"REQUIRE", g>>
    /\ f[4].text = <<"END">>

\* C20: compiling a source that holds one decision with one IF branch, a STATE
\* line and a single REQUIRE of one control, closed by END, gives exactly one
\* record; its GrantControls is Operator AND with the one mapped control (mfa
\* for MFA) as BuiltInControls, and it has no SessionControls key.
C20_SingleRequireRecord ==
    \A gm \in GrantVocabulary :
        (Compiled /\ Len(files) = 1 /\ SingleRequireFile(files[1], gm[1])) =>
            /\ Len(policies) = 1
            /\ "GrantControls" \in DOMAIN policies[1]
            /\ policies[1]["GrantControls"] =
                   [Operator |-> "AND", BuiltInControls |-> <<<<gm[2]>>>>]
            /\ "SessionControls" \notin DOMAIN policies[1]

C20_Witness ==
    /\ Compiled /\ Len(files) = 1 /\ SingleRequireFile(files[1], "HybridJoined")
    /\ Len(policies) = 1
    /\ "GrantControls" \in DOMAIN policies[1]
    /\ policies[1]["GrantControls"]["BuiltInControls"] = <<<<"domainJoinedDevice">>>>
    /\ DOMAIN policies[1] = {"DisplayName", "State", "Conditions", "GrantControls"}

\* f is IF platform is p / STATE s / a / END
OnePlatformFile(f, p) ==
    /\ Len(f) = 4
    /\ f[1].text = <<"IF", "platform", "is", p>>
    /\ f[2].text # <<>> /\ Head(f[2].text) = "STATE"
    /\ f[4].text = <<"END">>

\* C21: the source IF platform is Windows / STATE enabled / BLOCK / END compiles
\* to exactly one record with Conditions.Platforms.IncludePlatforms = [Windows]
\* and GrantControls = {Operator: OR, BuiltInControls: [block]}; and whatever
\* the state and the action, the one platform condition of a one-path run is
\* rendered as the one-element list IncludePlatforms = [that platform].
C21_OnePlatformOneRecord ==
    \A p \in {"Windows", "macOS"} :
        (Compiled /\ Len(files) = 1 /\ OnePlatformFile(files[1], p)) =>
            /\ Len(policies) = 1
            /\ "Platforms" \in DOMAIN policies[1]["Conditions"]
            /\ policies[1]["Conditions"]["Platforms"] =
                   [k \in {"IncludePlatforms"} |-> <<<<p>>>>]
            /\ (files[1][2].text = <<"STATE", "enabled">> /\ files[1][3].text = <<"BLOCK">>) =>
                   /\ policies[1]["State"] = <<"enabled">>
                   /\ DOMAIN policies[1]["Conditions"] = {"Platforms"}
                   /\ "GrantControls" \in DOMAIN policies[1]
                   /\ policies[1]["GrantControls"] =
                          [Operator |-> "OR", BuiltInControls |-> <<<<"block">>>>]

C21_Witness ==
    /\ Compiled /\ Len(files) = 1
    /\ files[1] = OneBranch(<<"platform", "is", "Windows">>, <<"enabled">>, <<"BLOCK">>)
    /\ Len(policies) = 1
    /\ policies[1]["Conditions"]["Platforms"]["IncludePlatforms"] = <<<<"Windows">>>>
    /\ policies[1]["GrantControls"]["BuiltInControls"] = <<<<"block">>>>

\* The actions the k-th record is built from: those of the first FlatPath of its
\* cluster.
RecordActions(k) == PathsOfKey(k)[1].actions

\* The control names of the REQUIRE actions, alternatives apart, each as it is
\* written in a record, in the order of the actions.
MappedControls(actions) ==
    LET names == ExplodedControls(actions)
    IN [i \in 1..Len(names) |-> _map_grant_control(names[i])]

\* The first position of x in list.
FirstIndex(list, x) == CHOOSE i \in 1..Len(list) : list[i] = x /\ \A j \in 1..(i - 1) : list[j] # x

IsAlternative(actions) ==
    \E i \in 1..Len(actions) : actions[i].type = "REQUIRE" /\ actions[i].is_or

\* C22: for a record whose actions hold no block action and at least one
\* REQUIRE with a value, GrantControls.Operator is OR exactly when one of the
\* REQUIRE actions is alternative-marked and AND otherwise, and BuiltInControls
\* holds every mapped control name exactly once, in the order of first
\* occurrence.
C22_OperatorAndUniqueControls ==
    Compiled =>
        \A k \in 1..Len(policies) :
            LET actions == RecordActions(k)
                names == MappedControls(actions)
            IN (~(\E i \in 1..Len(actions) : actions[i].type = "BLOCK") /\ names # <<>>) =>
                  /\ "GrantControls" \in DOMAIN policies[k]
                  /\ LET grant == policies[k]["GrantControls"]
                         built == grant["BuiltInControls"]
                     IN /\ grant["Operator"] = (IF IsAlternative(actions) THEN "OR" ELSE "AND")
                        /\ Range(built) = Range(names)
                        /\ \A i, j \in 1..Len(built) :
                              i < j => /\ built[i] # built[j]
                                       /\ FirstIndex(names, built[i]) < FirstIndex(names, built[j])

C22_Witness ==
    /\ Compiled
    /\ \E k \in 1..Len(policies) :
          /\ ~(\E i \in 1..Len(RecordActions(k)) : RecordActions(k)[i].type = "BLOCK")
          /\ Len(MappedControls(RecordActions(k))) = 4
          /\ "GrantControls" \in DOMAIN policies[k]
          /\ policies[k]["GrantControls"]["Operator"] = "OR"
          /\ Len(policies[k]["GrantControls"]["BuiltInControls"]) = 2

\* What holds of the phases in every state of a run.
PhaseInvariant ==
    /\ pc \in {"extract", "optimize", "save", "exit0"} => fileIdx = Len(files)
    /\ all_paths # <<>> => pc \in {"optimize", "save", "exit0"}
    /\ policies # <<>> => pc \in {"save", "exit0"}
    /\ pc \in {"optimize", "save", "exit0"} => all_paths = extract_paths(all_statements)
    /\ Compiled => Len(policies) = Cardinality({full_signature(all_paths[i]) :
                                                  i \in 1..Len(all_paths)})
    /\ written # <<>> => /\ Compiled
                         /\ Len(written) <= Len(policies)
                         /\ written = SubSeq(policies, 1, Len(written))

\* What holds of every step of a run: the statements grow during parsing only,
\* the paths are set by the extraction step only, the records by the
\* optimization step only (a new process run starts from nothing).
PhaseStep ==
    /\ all_statements' # all_statements => pc = "parse" \/ (pc = "exit0" /\ pc' = "parse")
    /\ all_paths' # all_paths =>
          (pc = "extract" /\ pc' = "optimize") \/ (pc = "exit0" /\ pc' = "parse")
    /\ policies' # policies =>
          (pc = "optimize" /\ pc' = "save") \/ (pc = "exit0" /\ pc' = "parse")
    /\ written' # written => pc = "save" \/ (pc = "exit0" /\ pc' = "parse")

\* C23: in a run over several files the phases are strictly ordered: extraction
\* starts only after every file has been parsed, optimization only after the
\* extraction, one optimizer pass is made over the FlatPaths of all the files
\* together (paths of equal outcome and state from different files are in one
\* record), and no record is written before the optimization has finished.
C23_PhasesOrdered == []PhaseInvariant /\ [][PhaseStep]_vars

C23_Witness ==
    /\ pc = "exit0" /\ Len(files) = 2
    /\ parse_file(files[1], <<>>).statements # <<>>
    /\ Len(all_statements) = 2
    /\ Len(all_paths) = 3
    /\ full_signature(all_paths[1]) = full_signature(all_paths[3])
    /\ Len(policies) = 2
    /\ written = policies

\* The statements of the readable files from the i-th on, parsed in order by one
\* parser.
RECURSIVE ParseReadable(_, _)
ParseReadable(i, table) ==
    IF i > Len(files) THEN <<>>
    ELSE IF files[i] = Unreadable THEN ParseReadable(i + 1, table)
    ELSE LET r == parse_file(files[i], table)
         IN r.statements \o ParseReadable(i + 1, r.variables)

\* C24: an I/O failure on one item (a source file that cannot be read, a record
\* that cannot be written) does not abort the processing of the other items:
\* the other files are parsed and compiled, the other records are written, and
\* the run ends with a non-zero status only when nothing was written.
C24_IOFailureDoesNotAbort ==
    /\ pc # "parse" => all_statements = ParseReadable(1, <<>>)
    /\ pc \in {"exit1", "traceback"} => written = <<>>
    /\ pc = "traceback" => Len(written) = Len(policies) - 1

\* C27: every FlatPath of a cluster renders to the GrantControls and the
\* SessionControls of the cluster's first path, the ones the record is given, so
\* that the record loses no grant or session control of any path of its cluster.
C27_ClusterSharesControls ==
    Compiled =>
        \A k \in 1..Len(policies) :
            \A i \in 1..Len(PathsOfKey(k)) :
                /\ _build_grant_controls(PathsOfKey(k)[i].actions)
                      = DictGet(policies[k], "GrantControls")
                /\ _build_session_controls(PathsOfKey(k)[i].actions)
                      = DictGet(policies[k], "SessionControls")

\* C25: in every emitted record each section under Conditions has a non-empty
\* value, the keys GrantControls and SessionControls are there only with a
\* non-empty value (and are there whenever the record's actions render to
\* one), and DisplayName, State and Conditions are always there.
C25_NoEmptySections ==
    \A k \in 1..Len(policies) :
        LET p == policies[k] IN
        /\ {"DisplayName", "State", "Conditions"} \subseteq DOMAIN p
        /\ DOMAIN p \subseteq {"DisplayName", "State", "Conditions", "GrantControls",
                               "SessionControls"}
        /\ \A s \in DOMAIN p["Conditions"] : p["Conditions"][s] # <<>>
        /\ "GrantControls" \in DOMAIN p <=> _build_grant_controls(RecordActions(k)) # EmptyDict
        /\ "GrantControls" \in DOMAIN p => p["GrantControls"] # EmptyDict
        /\ "SessionControls" \in DOMAIN p <=> _build_session_controls(RecordActions(k)) # EmptyDict
        /\ "SessionControls" \in DOMAIN p => p["SessionControls"] # EmptyDict

C25_Witness ==
    /\ Compiled
    /\ \E k \in 1..Len(policies) :
          /\ "SessionControls" \in DOMAIN policies[k]
          /\ "GrantControls" \notin DOMAIN policies[k]
    /\ \E k \in 1..Len(policies) :
          /\ "SessionControls" \notin DOMAIN policies[k]
          /\ "GrantControls" \in DOMAIN policies[k]
          /\ DOMAIN policies[k]["Conditions"] = {"Platforms"}

\* The (outcome signature, state) pair of a FlatPath.
OutcomeAndState(p) == <<get_action_signature(p), p.state>>

RECURSIVE SumOfSizes(_)
SumOfSizes(clusters) ==
    IF clusters = <<>> THEN 0 ELSE Len(Head(clusters).paths) + SumOfSizes(Tail(clusters))

\* C26: optimize gives exactly one record per distinct (outcome signature,
\* state) pair among the input FlatPaths: the records are at most as many as
\* the paths, every path is in exactly one cluster, and there is no record
\* exactly when there is no path.
C26_OneRecordPerKey ==
    Compiled =>
        LET clusters == _cluster_by_action(all_paths) IN
        /\ Len(policies) = Cardinality({OutcomeAndState(all_paths[i]) : i \in 1..Len(all_paths)})
        /\ Len(policies) = Len(clusters)
        /\ Len(policies) <= Len(all_paths)
        /\ Len(policies) = 0 <=> Len(all_paths) = 0
        /\ SumOfSizes(clusters) = Len(all_paths)
        /\ \A i \in 1..Len(all_paths) :
              Cardinality({k \in 1..Len(clusters) :
                             all_paths[i] \in Range(clusters[k].paths)}) = 1
        /\ \A k \in 1..Len(clusters) : \A i \in 1..Len(clusters[k].paths) :
              OutcomeAndState(clusters[k].paths[i]) = OutcomeAndState(clusters[k].paths[1])

C26_Witness ==
    /\ Compiled
    /\ Len(all_paths) = 3
    /\ Len(policies) = 2
    /\ get_action_signature(all_paths[1]) = get_action_signature(all_paths[2])
    /\ all_paths[1].state # all_paths[2].state
    /\ OutcomeAndState(all_paths[3]) = OutcomeAndState(all_paths[1])

\* Where a call that starts with the cursor at ln may leave it.
Forward(ln, lines, r) == ln <= r.ln /\ r.ln <= Len(lines)

\* C28: for every sequence of lines, with any indentation and any placement of
\* the keywords, parse_file ends with the cursor at the number of lines; from
\* every cursor position and at every base indentation each parsing function
\* and each of the parsing loops leaves the cursor at or after the place it
\* found it and never past the end, and a function that starts on an IF line
\* leaves it after that line.
C28_ParserAdvancesToEnd ==
    fileIdx >= 1 =>
        LET lines == files[1] IN
        /\ parse_file(lines, <<>>).ln = Len(lines)
        /\ all_statements = parse_file(lines, <<>>).statements
        /\ \A ln \in 0..Len(lines) :
              /\ FileLoop(lines, <<>>, ln, <<>>).ln = Len(lines)
              /\ \A b \in LineIndents :
                    /\ Forward(ln, lines, _parse_if_statement(lines, <<>>, ln, b))
                    /\ Forward(ln, lines, IfLoop(lines, <<>>, ln, b, IfStatement))
                    /\ Forward(ln, lines, _parse_branch(lines, <<>>, ln, b))
                    /\ Forward(ln, lines, CondLoop(lines, <<>>, ln, b, PolicyBranch))
                    /\ Forward(ln, lines, _parse_branch_body(lines, <<>>, ln, b + 4, PolicyBranch))
                    /\ Forward(ln, lines, BodyLoop(lines, <<>>, ln, b + 4, PolicyBranch))
                    /\ (ln < Len(lines) /\ StartsWithSp(lines[ln + 1].text, <<"IF">>)) =>
                          /\ _parse_if_statement(lines, <<>>, ln, b).ln > ln
                          /\ _parse_branch(lines, <<>>, ln, b).ln > ln

C28_Witness ==
    /\ fileIdx = 1 /\ Len(files[1]) = 3
    /\ files[1][1] = L(0, <<"IF", "platform", "is", "Windows">>)
    /\ files[1][2] = L(4, <<"IF", "platform", "is", "Windows">>)
    /\ files[1][3] = L(0, <<"BLOCK">>)
    /\ Len(all_statements) = 1
    /\ all_statements[1].if_branch.nested_if # None
    /\ parse_file(files[1], <<>>).ln = 3

\* The identifiers the paths of the k-th cluster name in conditions of one kind.
NamedIdentifiers(k, kind) ==
    {c.guid : c \in {cc \in UNION {Range(PathsOfKey(k)[i].conditions) :
                                     i \in 1..Len(PathsOfKey(k))} :
                        cc.type = kind /\ cc.operator = "in" /\ cc.guid # None}}

\* The identifiers the record has in list key of section, none without the section.
RecordIdentifiers(p, section, key) ==
    IF section \in DOMAIN p["Conditions"] /\ key \in DOMAIN p["Conditions"][section]
    THEN Range(p["Conditions"][section][key])
    ELSE {}

\* C29: when the paths of one cluster name two or more locations (location in
\* "Name" [id]) or applications, each of these identifiers is in
\* Locations.IncludeLocations (Applications.IncludeApplications) of the record:
\* the merge drops no identifier and does not leave the record without the
\* section.
C29_MergeKeepsIdentifiers ==
    Compiled =>
        \A k \in 1..Len(policies) :
            /\ Cardinality(NamedIdentifiers(k, "location")) >= 2 =>
                  NamedIdentifiers(k, "location")
                      \subseteq RecordIdentifiers(policies[k], "Locations", "IncludeLocations")
            /\ Cardinality(NamedIdentifiers(k, "app")) >= 2 =>
                  NamedIdentifiers(k, "app")
                      \subseteq RecordIdentifiers(policies[k], "Applications",
                                                  "IncludeApplications")

\* C30: a branch condition user NOT in group "Name" [g] is parsed into a
\* Condition of kind user-group with negated = true, and compiled into a
\* record whose Users.ExcludeGroups holds g and whose Users.IncludeGroups does
\* not.
C30_NegatedGroupExcluded ==
    (/\ Compiled /\ Len(files) = 1 /\ Len(files[1]) = 4
     /\ files[1][1].text = <<"IF">> \o NotInGroup) =>
        /\ Len(all_statements) = 1
        /\ all_statements[1].if_branch.conditions
              = <<Condition("user-group", "in", <<"HR">>, <<"g2">>, TRUE)>>
        /\ Len(policies) = 1
        /\ <<"g2">> \in RecordIdentifiers(policies[1], "Users", "ExcludeGroups")
        /\ <<"g2">> \notin RecordIdentifiers(policies[1], "Users", "IncludeGroups")

====
